---- MODULE Spec2Model ----
(***************************************************************************)
(* GPS track correlation engine of the race-photo gallery (docs/app.js):   *)
(* parseGpx, interpolatePosition, getMetricsAtTime, the series of          *)
(* renderGpxChart and the photo grouping pass of renderRaceDetail.         *)
(*                                                                         *)
(* Numbers.  Times are integer milliseconds.  lat and lon are integers in  *)
(* units of 1e-4 degree, distances integers in metres.  Every value the    *)
(* code computes with a division (interpolated positions, running means,   *)
(* pace) is an exact fraction [n |-> numerator, d |-> denominator] in      *)
(* lowest terms; d = 0 stands for the non-finite results of a division by  *)
(* zero (n = 0: NaN, n = 1: +Infinity, n = -1: -Infinity).  Rounding of    *)
(* IEEE doubles is not modelled.                                           *)
(***************************************************************************)
EXTENDS Integers, Sequences, FiniteSets, TLC

VARIABLES
    trackpoints,        \* the parsed track: sequence of trackpoint records
    allPhotos,          \* race.sources.flatMap(s => s.photos)
    pc,                 \* position of the running operation
    idx,                \* index of the forEach iteration in progress
    photoPositions,     \* timed photos with an interpolated position
    outOfRangePhotos,   \* timed photos interpolatePosition rejected
    noTimestampPhotos,  \* photos without a timestamp
    groupList,          \* in-range groups
    oorGroups,          \* out-of-range groups
    utcMs,              \* argument of a single query
    pos,                \* result of interpolatePosition for the query
    metrics,            \* result of getMetricsAtTime for the query
    doc,                \* the trkpt elements of a GPX document
    chartLib,           \* typeof Chart !== 'undefined'
    chart,              \* the series renderGpxChart builds
    paceIn,             \* argument of formatPace
    paceText,           \* result of formatPace
    km,                 \* the kilometre of the marker loop
    kmMarkers,          \* the kilometre markers placed on the map
    lightbox,           \* the lightbox element: its class and its content
    events,             \* the user events the page has handled, in order
    call,               \* the latest engine call of a second view, its result
    manifest,           \* this.manifest
    hash,               \* window.location.hash, a sequence of characters
    leaflet,            \* typeof L !== 'undefined'
    boot,               \* position of render(): its manifest fetch
    response,           \* the outcome of the manifest fetch
    container,          \* the children of this.racesContainer
    renders,            \* the calls of renderRaceDetail, each with its card
    timers,             \* the renders whose 100 ms timer is pending, in order
    view,               \* what the latest handleRoute did
    errors,             \* the uncaught errors
    navs                \* the number of hashchange events

vars == <<trackpoints, allPhotos, pc, idx, photoPositions, outOfRangePhotos,
          noTimestampPhotos, groupList, oorGroups, utcMs, pos, metrics,
          doc, chartLib, chart, paceIn, paceText,
          km, kmMarkers, lightbox, events, call,
          manifest, hash, leaflet, boot, response, container, renders,
          timers, view, errors, navs>>

corrVars == <<allPhotos, idx, photoPositions, outOfRangePhotos,
              noTimestampPhotos, groupList, oorGroups>>

queryVars == <<utcMs, pos, metrics>>

gpxVars == <<doc, chartLib, chart>>

formatVars == <<paceIn, paceText>>

kmVars == <<km, kmMarkers>>

boxVars == <<lightbox, events>>

pageVars == <<manifest, hash, leaflet, boot, response, container, renders,
              timers, view, errors, navs>>

viewVars == <<boxVars, call, pageVars>>

uiVars == <<formatVars, kmVars, viewVars>>

(***************************************************************************)
(* Bounds of the model.                                                    *)
(***************************************************************************)
MaxTrack == 4       \* longest track of the single-query specifications
MaxCorrTrack == 3   \* longest track of the correlation specification
MaxPhotos == 3      \* most photos of a race
MaxMetricsTrack == 3 \* longest generated track of the metrics specification
MaxChartTrack == 3  \* longest short track of the chart specification
MaxLongTrack == 1001 \* longest track of the chart specification
MaxDoc == 3         \* most trkpt elements of a GPX document
MaxPaceMin == 3     \* largest pace formatted, in min/km
MaxKmTrack == 5     \* longest track of the kilometre-marker specification

(***************************************************************************)
(* Program constants.                                                      *)
(***************************************************************************)
TOLERANCE == 30000
MERGE_TIME == 10000
OOR_MERGE == 10000
WINDOW == 30000
UtcOffsetMs == 28800000
MAX_SAMPLES == 500
PACE_WINDOW == 30

(***************************************************************************)
(* Exact arithmetic.                                                       *)
(***************************************************************************)
Abs(x) == IF x < 0 THEN -x ELSE x

Sign(x) == IF x < 0 THEN -1 ELSE IF x > 0 THEN 1 ELSE 0

RECURSIVE Gcd(_, _)
Gcd(a, b) == IF b = 0 THEN a ELSE Gcd(b, a % b)

\* the fraction n/d in lowest terms with a positive denominator
Frac(n, d) ==
    IF d = 0 THEN [n |-> Sign(n), d |-> 0]
    ELSE LET g == Gcd(Abs(n), Abs(d))
         IN  [n |-> Sign(d) * (n \div g), d |-> Abs(d) \div g]

Num(i) == [n |-> i, d |-> 1]

NaN == [n |-> 0, d |-> 0]

IsFinite(x) == x.d # 0

RAdd(x, y) ==
    IF x.d = 0 /\ y.d = 0 THEN (IF x.n = y.n THEN x ELSE NaN)
    ELSE IF x.d = 0 THEN x
    ELSE IF y.d = 0 THEN y
    ELSE LET l == (x.d \div Gcd(x.d, y.d)) * y.d
         IN  Frac(x.n * (l \div x.d) + y.n * (l \div y.d), l)

RNeg(x) == [n |-> -x.n, d |-> x.d]

RSub(x, y) == RAdd(x, RNeg(y))

RMul(x, y) ==
    IF x.d = 0 \/ y.d = 0 THEN [n |-> Sign(x.n) * Sign(y.n), d |-> 0]
    ELSE LET g1 == Gcd(Abs(x.n), y.d)
             g2 == Gcd(Abs(y.n), x.d)
             h1 == IF g1 = 0 THEN 1 ELSE g1
             h2 == IF g2 = 0 THEN 1 ELSE g2
         IN  Frac((x.n \div h1) * (y.n \div h2), (x.d \div h2) * (y.d \div h1))

RDiv(x, y) ==
    IF y.d = 0 THEN (IF x.d = 0 \/ y.n = 0 THEN NaN ELSE Num(0))
    ELSE IF x.d = 0 THEN [n |-> x.n * (IF y.n < 0 THEN -1 ELSE 1), d |-> 0]
    ELSE IF y.n = 0 THEN [n |-> Sign(x.n), d |-> 0]
    ELSE RMul(x, Frac(y.d, y.n))

\* x < y and x <= y as JavaScript compares numbers (false on NaN)
RLt(x, y) ==
    IF x = NaN \/ y = NaN THEN FALSE
    ELSE IF x.d = 0 /\ y.d = 0 THEN x.n < y.n
    ELSE IF x.d = 0 THEN x.n < 0
    ELSE IF y.d = 0 THEN y.n > 0
    ELSE x.n * y.d < y.n * x.d

RLe(x, y) == x # NaN /\ y # NaN /\ (x = y \/ RLt(x, y))

(***************************************************************************)
(* haversine: great-circle distance in metres.  On the few places of the   *)
(* model (all within 0.002 degree of the equator) the formula equals       *)
(* 11.119 m * sqrt(dLat^2 + dLon^2) to well under a metre; the result is   *)
(* rounded down to whole metres.                                           *)
(***************************************************************************)
\* the largest r in lo..hi with r * r <= x, by bisection
RECURSIVE ISqrtIn(_, _, _)
ISqrtIn(x, lo, hi) ==
    IF lo = hi THEN lo
    ELSE LET mid == (lo + hi + 1) \div 2
         IN  IF mid * mid <= x THEN ISqrtIn(x, mid, hi)
             ELSE ISqrtIn(x, lo, mid - 1)

ISqrt(x) == ISqrtIn(x, 0, IF x < 46340 THEN x ELSE 46340)

haversine(lat1, lon1, lat2, lon2) ==
    LET dLat == lat2 - lat1
        dLon == lon2 - lon1
    IN  ISqrt(((dLat * dLat + dLon * dLon) * 12363) \div 100)

(***************************************************************************)
(* parseGpx.  A raw point is a record that has the field lat (lon) when    *)
(* parseFloat of its attribute is a number, the field time when it has a   *)
(* <time> element whose text is a date (the value is that date in ms), the *)
(* field timeText when it has a <time> element whose text is not a date,   *)
(* and the fields ele and hr when it has an <ele> and an <hr> element.     *)
(* new Date(text).getTime() of a text that is not a date is NaN: the       *)
(* trackpoint built from it has the field timeNaN in place of time.        *)
(***************************************************************************)
\* the entry pushed for an accepted raw point pt
gpxEntry(points, pt, cumDist) ==
    LET d == IF Len(points) > 0
             THEN cumDist + haversine(points[Len(points)].lat,
                                      points[Len(points)].lon,
                                      pt.lat, pt.lon)
             ELSE cumDist
    IN  [lat |-> pt.lat, lon |-> pt.lon, dist |-> d]
          @@ (IF "time" \in DOMAIN pt THEN [time |-> pt.time]
                                      ELSE [timeNaN |-> TRUE])
          @@ (IF "ele" \in DOMAIN pt THEN [ele |-> pt.ele] ELSE <<>>)
          @@ (IF "hr" \in DOMAIN pt THEN [hr |-> pt.hr] ELSE <<>>)

RECURSIVE parseGpxFrom_CountSkipped(_, _, _, _)
parseGpxFrom_CountSkipped(trkpts, i, points, cumDist) ==
    IF i > Len(trkpts) THEN points
    ELSE LET pt == trkpts[i]
             timeEl == "time" \in DOMAIN pt \/ "timeText" \in DOMAIN pt
             located == "lat" \in DOMAIN pt /\ "lon" \in DOMAIN pt
         IN  IF timeEl /\ located
             THEN LET entry == gpxEntry(points, pt, cumDist)
                  IN  parseGpxFrom_CountSkipped(trkpts, i + 1,
                                                Append(points, entry),
                                                entry.dist)
             ELSE parseGpxFrom_CountSkipped(trkpts, i + 1, points,
                    IF located /\ Len(points) > 0
                    THEN cumDist + haversine(points[Len(points)].lat,
                                             points[Len(points)].lon,
                                             pt.lat, pt.lon)
                    ELSE cumDist)

RECURSIVE parseGpxFrom(_, _, _, _)
parseGpxFrom(trkpts, i, points, cumDist) ==
    IF i > Len(trkpts) THEN points
    ELSE LET pt == trkpts[i]
             timeEl == "time" \in DOMAIN pt \/ "timeText" \in DOMAIN pt
         IN  IF timeEl /\ "lat" \in DOMAIN pt /\ "lon" \in DOMAIN pt
             THEN LET entry == gpxEntry(points, pt, cumDist)
                  IN  parseGpxFrom(trkpts, i + 1, Append(points, entry),
                                   entry.dist)
             ELSE parseGpxFrom(trkpts, i + 1, points, cumDist)

parseGpx(trkpts) == parseGpxFrom(trkpts, 1, <<>>, 0)

(***************************************************************************)
(* photoTimestampToUtc.  A photo's timestamp "YYYY-MM-DD HH:MM:SS" is      *)
(* modelled by the milliseconds since the epoch that the string denotes    *)
(* when read as UTC; the code reads it with the offset +08:00.             *)
(***************************************************************************)
photoTimestampToUtc(timestamp) == timestamp - UtcOffsetMs

(***************************************************************************)
(* interpolatePosition.                                                    *)
(***************************************************************************)
Null == [null |-> TRUE]

PosOf(p) == [lat |-> Num(p.lat), lon |-> Num(p.lon), dist |-> Num(p.dist)]

\* binarySearch with a strict comparison (time < t instead of time <= t)
RECURSIVE binarySearch_Strict(_, _, _, _)
binarySearch_Strict(tps, t, lo, hi) ==
    IF lo < hi - 1
    THEN LET mid == (lo + hi) \div 2
         IN  IF tps[mid].time < t
             THEN binarySearch_Strict(tps, t, mid, hi)
             ELSE binarySearch_Strict(tps, t, lo, mid)
    ELSE [lo |-> lo, hi |-> hi]

\* the binary search of interpolatePosition and getMetricsAtTime, indices
\* 1-based: mid = (lo + hi) >> 1 on 0-based indices is (lo + hi) \div 2 here
RECURSIVE binarySearch(_, _, _, _)
binarySearch(tps, t, lo, hi) ==
    IF lo < hi - 1
    THEN LET mid == (lo + hi) \div 2
         IN  IF tps[mid].time <= t
             THEN binarySearch(tps, t, mid, hi)
             ELSE binarySearch(tps, t, lo, mid)
    ELSE [lo |-> lo, hi |-> hi]

\* Lerp with the two endpoints exchanged
Lerp_Swapped(a, b, ratio) == RAdd(Num(b), RMul(Num(a - b), ratio))

\* lines 417-419: a + (b - a) * ratio
Lerp(a, b, ratio) == RAdd(Num(a), RMul(Num(b - a), ratio))

\* OutsideRange with the tolerance bound excluded (<= and >=)
OutsideRange_Inclusive(tps, t) ==
    t <= tps[1].time - TOLERANCE \/ t >= tps[Len(tps)].time + TOLERANCE

\* the test of line 401: t is outside the track's range, tolerance included
OutsideRange(tps, t) ==
    t < tps[1].time - TOLERANCE \/ t > tps[Len(tps)].time + TOLERANCE

\* interpolatePosition without the clamp to the last trackpoint (line 404)
interpolatePosition_NoEndClamp(tps, t) ==
    IF Len(tps) = 0 THEN Null
    ELSE IF OutsideRange(tps, t) THEN Null
    ELSE IF t <= tps[1].time THEN PosOf(tps[1])
    ELSE LET s == binarySearch(tps, t, 1, Len(tps))
             a == tps[s.lo]
             b == tps[s.hi]
             ratio == RDiv(Num(t - a.time), Num(b.time - a.time))
         IN  [lat |-> Lerp(a.lat, b.lat, ratio),
              lon |-> Lerp(a.lon, b.lon, ratio),
              dist |-> Lerp(a.dist, b.dist, ratio)]

interpolatePosition(tps, t) ==
    IF Len(tps) = 0 THEN Null
    ELSE IF OutsideRange(tps, t) THEN Null
    ELSE IF t <= tps[1].time THEN PosOf(tps[1])
    ELSE IF t >= tps[Len(tps)].time THEN PosOf(tps[Len(tps)])
    ELSE LET s == binarySearch(tps, t, 1, Len(tps))
             a == tps[s.lo]
             b == tps[s.hi]
             ratio == RDiv(Num(t - a.time), Num(b.time - a.time))
         IN  [lat |-> Lerp(a.lat, b.lat, ratio),
              lon |-> Lerp(a.lon, b.lon, ratio),
              dist |-> Lerp(a.dist, b.dist, ratio)]

(***************************************************************************)
(* getMetricsAtTime.  On an empty track trackpoints[lo] is undefined and   *)
(* reading its hr throws a TypeError.                                      *)
(***************************************************************************)
Threw == [threw |-> "TypeError"]

\* the index lo of the trackpoint pt the metrics are based on (1-based)
metricsPoint(tps, t) == binarySearch(tps, t, 1, Len(tps)).lo

\* the loop of lines 608-611: the latest point at least WINDOW before pt,
\* searched from index j downwards; pt itself when there is none
RECURSIVE paceWindowStart(_, _, _)
paceWindowStart(tps, pt, j) ==
    IF j < 1 THEN pt
    ELSE IF pt.time - tps[j].time >= WINDOW THEN tps[j]
    ELSE paceWindowStart(tps, pt, j - 1)

\* lines 612-618: the pace between prev and pt, or null
paceBetween_NoCap(prev, pt) ==
    LET timeDiffMin == Frac(pt.time - prev.time, 60000)
        distDiffKm == Frac(pt.dist - prev.dist, 1000)
    IN  IF RLt(Frac(1, 1000), distDiffKm) /\ RLt(Num(0), timeDiffMin)
        THEN RDiv(timeDiffMin, distDiffKm)
        ELSE Null

paceBetween(prev, pt) ==
    LET timeDiffMin == Frac(pt.time - prev.time, 60000)
        distDiffKm == Frac(pt.dist - prev.dist, 1000)
    IN  IF RLt(Frac(1, 1000), distDiffKm) /\ RLt(Num(0), timeDiffMin)
        THEN LET pace == RDiv(timeDiffMin, distDiffKm)
             IN  IF RLt(Num(15), pace) THEN Null ELSE pace
        ELSE Null

getMetricsAtTime_TruthyHr(tps, t) ==
    IF Len(tps) = 0 THEN Threw
    ELSE LET s == binarySearch(tps, t, 1, Len(tps))
             pt == tps[metricsPoint(tps, t)]
             hr == IF "hr" \in DOMAIN pt /\ pt.hr # 0 THEN Num(pt.hr)
                   ELSE IF "hr" \in DOMAIN tps[s.hi] /\ tps[s.hi].hr # 0
                        THEN Num(tps[s.hi].hr)
                   ELSE Null
             prev == paceWindowStart(tps, pt, s.lo)
         IN  [pace |-> paceBetween(prev, pt), hr |-> hr]

getMetricsAtTime(tps, t) ==
    IF Len(tps) = 0 THEN Threw
    ELSE LET s == binarySearch(tps, t, 1, Len(tps))
             pt == tps[metricsPoint(tps, t)]
             hr == IF "hr" \in DOMAIN pt THEN Num(pt.hr)
                   ELSE IF "hr" \in DOMAIN tps[s.hi] THEN Num(tps[s.hi].hr)
                   ELSE Null
             prev == paceWindowStart(tps, pt, s.lo)
         IN  [pace |-> paceBetween(prev, pt), hr |-> hr]

(***************************************************************************)
(* The grouping pass of renderRaceDetail (lines 711-746, 764-771 and       *)
(* 835-860).  A photo is a record with an id (its position in allPhotos)   *)
(* and, when it has one, a timestamp.                                      *)
(***************************************************************************)
\* Array.prototype.sort with the comparator (a, b) => a.time - b.time:
\* a stable sort by time
RECURSIVE InsertByTime(_, _)
InsertByTime(sorted, x) ==
    IF Len(sorted) = 0 THEN <<x>>
    ELSE IF sorted[Len(sorted)].time - x.time <= 0 THEN Append(sorted, x)
    ELSE Append(InsertByTime(SubSeq(sorted, 1, Len(sorted) - 1), x),
                sorted[Len(sorted)])

RECURSIVE SortByTimeFrom(_, _, _)
SortByTimeFrom(items, i, sorted) ==
    IF i > Len(items) THEN sorted
    ELSE SortByTimeFrom(items, i + 1, InsertByTime(sorted, items[i]))

SortByTime_InputOrder(items) == items

SortByTime(items) == SortByTimeFrom(items, 1, <<>>)

\* mergeIntoGroups with the gap measured from the group's first member
mergeIntoGroups_FromFirst(groups, pp) ==
    IF Len(groups) > 0 /\ pp.time - groups[Len(groups)].time < MERGE_TIME
    THEN LET last == groups[Len(groups)]
             n == Len(last.photos) + 1
         IN  [groups EXCEPT ![Len(groups)] =
                [lat |-> RAdd(last.lat, RDiv(RSub(pp.lat, last.lat), Num(n))),
                 lon |-> RAdd(last.lon, RDiv(RSub(pp.lon, last.lon), Num(n))),
                 dist |-> RAdd(last.dist, RDiv(RSub(pp.dist, last.dist), Num(n))),
                 lastTime |-> pp.time,
                 time |-> last.time,
                 photos |-> Append(last.photos, pp.photo)]]
    ELSE Append(groups, [lat |-> pp.lat, lon |-> pp.lon, dist |-> pp.dist,
                         lastTime |-> pp.time, time |-> pp.time,
                         photos |-> <<pp.photo>>])

\* mergeIntoGroups with the window boundary included (<= instead of <)
mergeIntoGroups_Inclusive(groups, pp) ==
    IF Len(groups) > 0 /\ pp.time - groups[Len(groups)].lastTime <= MERGE_TIME
    THEN LET last == groups[Len(groups)]
             n == Len(last.photos) + 1
         IN  [groups EXCEPT ![Len(groups)] =
                [lat |-> RAdd(last.lat, RDiv(RSub(pp.lat, last.lat), Num(n))),
                 lon |-> RAdd(last.lon, RDiv(RSub(pp.lon, last.lon), Num(n))),
                 dist |-> RAdd(last.dist, RDiv(RSub(pp.dist, last.dist), Num(n))),
                 lastTime |-> pp.time,
                 time |-> last.time,
                 photos |-> Append(last.photos, pp.photo)]]
    ELSE Append(groups, [lat |-> pp.lat, lon |-> pp.lon, dist |-> pp.dist,
                         lastTime |-> pp.time, time |-> pp.time,
                         photos |-> <<pp.photo>>])

\* mergeIntoGroups with the mean divided by the member count before the append
mergeIntoGroups_StaleCount(groups, pp) ==
    IF Len(groups) > 0 /\ pp.time - groups[Len(groups)].lastTime < MERGE_TIME
    THEN LET last == groups[Len(groups)]
             n == Len(last.photos)
         IN  [groups EXCEPT ![Len(groups)] =
                [lat |-> RAdd(last.lat, RDiv(RSub(pp.lat, last.lat), Num(n))),
                 lon |-> RAdd(last.lon, RDiv(RSub(pp.lon, last.lon), Num(n))),
                 dist |-> RAdd(last.dist, RDiv(RSub(pp.dist, last.dist), Num(n))),
                 lastTime |-> pp.time,
                 time |-> last.time,
                 photos |-> Append(last.photos, pp.photo)]]
    ELSE Append(groups, [lat |-> pp.lat, lon |-> pp.lon, dist |-> pp.dist,
                         lastTime |-> pp.time, time |-> pp.time,
                         photos |-> <<pp.photo>>])

\* lines 736-745: fold one positioned photo into the list of groups
mergeIntoGroups(groups, pp) ==
    IF Len(groups) > 0 /\ pp.time - groups[Len(groups)].lastTime < MERGE_TIME
    THEN LET last == groups[Len(groups)]
             n == Len(last.photos) + 1
         IN  [groups EXCEPT ![Len(groups)] =
                [lat |-> RAdd(last.lat, RDiv(RSub(pp.lat, last.lat), Num(n))),
                 lon |-> RAdd(last.lon, RDiv(RSub(pp.lon, last.lon), Num(n))),
                 dist |-> RAdd(last.dist, RDiv(RSub(pp.dist, last.dist), Num(n))),
                 lastTime |-> pp.time,
                 time |-> last.time,
                 photos |-> Append(last.photos, pp.photo)]]
    ELSE Append(groups, [lat |-> pp.lat, lon |-> pp.lon, dist |-> pp.dist,
                         lastTime |-> pp.time, time |-> pp.time,
                         photos |-> <<pp.photo>>])

\* mergeIntoOorGroups where a merge replaces the group's photos
mergeIntoOorGroups_Replace(groups, pp) ==
    IF Len(groups) > 0 /\ pp.time - groups[Len(groups)].lastTime < OOR_MERGE
    THEN LET last == groups[Len(groups)]
         IN  [groups EXCEPT ![Len(groups)] =
                [lastTime |-> pp.time, time |-> last.time,
                 photos |-> <<pp.photo>>]]
    ELSE Append(groups, [lastTime |-> pp.time, time |-> pp.time,
                         photos |-> <<pp.photo>>])

\* lines 840-846: fold one out-of-range photo into the out-of-range groups
mergeIntoOorGroups(groups, pp) ==
    IF Len(groups) > 0 /\ pp.time - groups[Len(groups)].lastTime < OOR_MERGE
    THEN LET last == groups[Len(groups)]
         IN  [groups EXCEPT ![Len(groups)] =
                [lastTime |-> pp.time, time |-> last.time,
                 photos |-> Append(last.photos, pp.photo)]]
    ELSE Append(groups, [lastTime |-> pp.time, time |-> pp.time,
                         photos |-> <<pp.photo>>])

\* groupMetrics sampled at the time of the group's latest member
groupMetrics_AtLast(tps, group) == getMetricsAtTime(tps, group.lastTime)

\* lines 764-771: the metrics of a group, sampled at group.time
groupMetrics(tps, group) == getMetricsAtTime(tps, group.time)

(***************************************************************************)
(* Inputs.  Tracks are what parseGpx builds from raw points whose times    *)
(* do not decrease (the GPX is recorded in time order); adjacent points    *)
(* may share a timestamp.                                                  *)
(***************************************************************************)
\* the k-th place of a staircase path: consecutive places are 100 m apart
PlaceAt(k) == << 9 * (k \div 2), 9 * ((k + 1) \div 2) >>

RECURSIVE TimeAt(_, _)
TimeAt(dt, i) == IF i = 1 THEN 0 ELSE TimeAt(dt, i - 1) + dt[i - 1]

RawTrack(n, dt, pl, hr) ==
    [i \in 1..n |->
        IF hr[i] < 0
        THEN [lat |-> pl[i][1], lon |-> pl[i][2], time |-> TimeAt(dt, i)]
        ELSE [lat |-> pl[i][1], lon |-> pl[i][2], time |-> TimeAt(dt, i),
              hr |-> hr[i]]]

\* the places of a run of n points along the staircase path: each point is
\* where the previous one is, or one place further
RunPlaces(n) ==
    { [i \in 1..n |-> PlaceAt(k[i])] :
        k \in { f \in [1..n -> 0..(n - 1)] :
                  /\ n > 0 => f[1] = 0
                  /\ \A i \in 1..(n - 1) : f[i + 1] - f[i] \in {0, 1} } }

\* the tracks of minLen..maxLen points sampled at intervals drawn from dts,
\* heart rates drawn from hrs (negative: the point has none)
Tracks(minLen, maxLen, dts, hrs) ==
    UNION { { parseGpx(RawTrack(n, dt, pl, hr)) :
                dt \in [1..(n - 1) -> dts], pl \in RunPlaces(n),
                hr \in [1..n -> hrs] } : n \in minLen..maxLen }

QueryOffsets == { -30001, -30000, -1, 0, 1, 5000, 15000, 30000, 30001 }

\* the query times: around every trackpoint of the track, and around 0
QueryTimes(tps) ==
    { 0 + o : o \in QueryOffsets } \cup
    { tps[i].time + o : i \in 1..Len(tps), o \in QueryOffsets }

\* the tracks of the correlation specification
CorrTracks == Tracks(1, MaxCorrTrack, {30000}, {-1})

\* the UTC times of the photos
PhotoTimes == { 25000, 30000, 35000, 45000 }

\* 0: the photo has no timestamp
PhotoLists ==
    UNION { { [i \in 1..n |->
                 IF ts[i] = 0 THEN [id |-> i]
                 ELSE [id |-> i, timestamp |-> ts[i] + UtcOffsetMs]] :
              ts \in [1..n -> PhotoTimes \cup {0}] } : n \in 0..MaxPhotos }

CorrIdle ==
    /\ allPhotos = <<>>
    /\ idx = 0
    /\ photoPositions = <<>>
    /\ outOfRangePhotos = <<>>
    /\ noTimestampPhotos = <<>>
    /\ groupList = <<>>
    /\ oorGroups = <<>>

GpxIdle ==
    /\ doc = <<>>
    /\ chartLib = FALSE
    /\ chart = Null

FormatIdle ==
    /\ paceIn = Null
    /\ paceText = Null

KmIdle ==
    /\ km = 0
    /\ kmMarkers = <<>>

BoxIdle ==
    /\ lightbox = Null
    /\ events = <<>>

PageIdle ==
    /\ manifest = Null
    /\ hash = <<>>
    /\ leaflet = FALSE
    /\ boot = "idle"
    /\ response = Null
    /\ container = <<>>
    /\ renders = <<>>
    /\ timers = <<>>
    /\ view = Null
    /\ errors = {}
    /\ navs = 0

ViewIdle ==
    /\ BoxIdle
    /\ call = Null
    /\ PageIdle

UiIdle ==
    /\ FormatIdle
    /\ KmIdle
    /\ ViewIdle

(***************************************************************************)
(* Spec: the grouping pass of renderRaceDetail over a parsed, non-empty    *)
(* track (the pass runs only if trackpoints.length > 0, line 678).         *)
(***************************************************************************)
Init ==
    /\ trackpoints \in CorrTracks
    /\ allPhotos \in PhotoLists
    /\ pc = "classify"
    /\ idx = 1
    /\ photoPositions = <<>>
    /\ outOfRangePhotos = <<>>
    /\ noTimestampPhotos = <<>>
    /\ groupList = <<>>
    /\ oorGroups = <<>>
    /\ utcMs = 0
    /\ pos = Null
    /\ metrics = Null
    /\ GpxIdle
    /\ UiIdle

\* one iteration of allPhotos.forEach (lines 716-728)
ClassifyPhoto ==
    /\ pc = "classify"
    /\ idx <= Len(allPhotos)
    /\ LET photo == allPhotos[idx]
       IN  IF "timestamp" \notin DOMAIN photo
           THEN /\ noTimestampPhotos' = Append(noTimestampPhotos, photo)
                /\ UNCHANGED <<photoPositions, outOfRangePhotos>>
           ELSE LET t == photoTimestampToUtc(photo.timestamp)
                    p == interpolatePosition(trackpoints, t)
                IN  IF p = Null
                    THEN /\ outOfRangePhotos' =
                              Append(outOfRangePhotos, [photo |-> photo, time |-> t])
                         /\ UNCHANGED <<photoPositions, noTimestampPhotos>>
                    ELSE /\ photoPositions' =
                              Append(photoPositions,
                                     [photo |-> photo, lat |-> p.lat, lon |-> p.lon,
                                      dist |-> p.dist, time |-> t])
                         /\ UNCHANGED <<outOfRangePhotos, noTimestampPhotos>>
    /\ idx' = idx + 1
    /\ UNCHANGED <<trackpoints, allPhotos, pc, groupList, oorGroups, queryVars, gpxVars, uiVars>>

SortPhotos_InPlace ==
    /\ pc = "classify"
    /\ idx > Len(allPhotos)
    /\ photoPositions' = SortByTime(photoPositions)
    /\ outOfRangePhotos' = SortByTime(outOfRangePhotos)
    /\ allPhotos' =
          LET timed == SortByTime([i \in 1..Len(allPhotos) |->
                          [photo |-> allPhotos[i],
                           time |-> IF "timestamp" \in DOMAIN allPhotos[i]
                                    THEN allPhotos[i].timestamp ELSE 0]])
          IN  [i \in 1..Len(allPhotos) |-> timed[i].photo]
    /\ pc' = "group"
    /\ idx' = 1
    /\ UNCHANGED <<trackpoints, noTimestampPhotos, groupList,
                   oorGroups, queryVars, gpxVars, uiVars>>

\* the two sorts of lines 729-730
SortPhotos ==
    /\ pc = "classify"
    /\ idx > Len(allPhotos)
    /\ photoPositions' = SortByTime(photoPositions)
    /\ outOfRangePhotos' = SortByTime(outOfRangePhotos)
    /\ pc' = "group"
    /\ idx' = 1
    /\ UNCHANGED <<trackpoints, allPhotos, noTimestampPhotos, groupList,
                   oorGroups, queryVars, gpxVars, uiVars>>

\* one iteration of photoPositions.forEach (lines 734-746)
GroupPhoto ==
    /\ pc = "group"
    /\ idx <= Len(photoPositions)
    /\ groupList' = mergeIntoGroups(groupList, photoPositions[idx])
    /\ idx' = idx + 1
    /\ UNCHANGED <<trackpoints, allPhotos, pc, photoPositions, outOfRangePhotos,
                   noTimestampPhotos, oorGroups, queryVars, gpxVars, uiVars>>

GroupingDone ==
    /\ pc = "group"
    /\ idx > Len(photoPositions)
    /\ pc' = "markers"
    /\ idx' = 1
    /\ UNCHANGED <<trackpoints, allPhotos, photoPositions, outOfRangePhotos,
                   noTimestampPhotos, groupList, oorGroups, queryVars, gpxVars, uiVars>>

\* one iteration of groupList.forEach (lines 764-799): the group's metrics
MarkGroup ==
    /\ pc = "markers"
    /\ idx <= Len(groupList)
    /\ groupList' =
          [groupList EXCEPT ![idx] =
              [lat |-> @.lat, lon |-> @.lon, dist |-> @.dist,
               lastTime |-> @.lastTime, time |-> @.time, photos |-> @.photos,
               metrics |-> groupMetrics(trackpoints, @)]]
    /\ idx' = idx + 1
    /\ UNCHANGED <<trackpoints, allPhotos, pc, photoPositions, outOfRangePhotos,
                   noTimestampPhotos, oorGroups, queryVars, gpxVars, uiVars>>

MarkersDone ==
    /\ pc = "markers"
    /\ idx > Len(groupList)
    /\ pc' = "oor"
    /\ idx' = 1
    /\ UNCHANGED <<trackpoints, allPhotos, photoPositions, outOfRangePhotos,
                   noTimestampPhotos, groupList, oorGroups, queryVars, gpxVars, uiVars>>

\* one iteration of outOfRangePhotos.forEach (lines 839-847)
GroupOorPhoto ==
    /\ pc = "oor"
    /\ idx <= Len(outOfRangePhotos)
    /\ oorGroups' = mergeIntoOorGroups(oorGroups, outOfRangePhotos[idx])
    /\ idx' = idx + 1
    /\ UNCHANGED <<trackpoints, allPhotos, pc, photoPositions, outOfRangePhotos,
                   noTimestampPhotos, groupList, queryVars, gpxVars, uiVars>>

\* the sections are appended to the card (line 860)
Finish ==
    /\ pc = "oor"
    /\ idx > Len(outOfRangePhotos)
    /\ pc' = "done"
    /\ UNCHANGED <<trackpoints, corrVars, queryVars, gpxVars, uiVars>>

Next ==
    \/ ClassifyPhoto
    \/ SortPhotos
    \/ GroupPhoto
    \/ GroupingDone
    \/ MarkGroup
    \/ MarkersDone
    \/ GroupOorPhoto
    \/ Finish

Spec == Init /\ [][Next]_vars

(***************************************************************************)
(* Properties of the grouping pass (specification Spec).                   *)
(***************************************************************************)
MemberTime(photo) == photoTimestampToUtc(photo.timestamp)

\* the places <<g, j>> of the groups where the photo is a member
Slots(groups, photo) ==
    { s \in UNION { { <<g, j>> : j \in 1..Len(groups[g].photos) } :
                    g \in 1..Len(groups) } :
        groups[s[1]].photos[s[2]] = photo }

Occurrences(photos, photo) == { j \in 1..Len(photos) : photos[j] = photo }

RECURSIVE Flatten(_)
Flatten(groups) ==
    IF Len(groups) = 0 THEN <<>>
    ELSE Flatten(SubSeq(groups, 1, Len(groups) - 1)) \o groups[Len(groups)].photos

\* members of one group lie less than 10 000 ms from their predecessor, and
\* the first member of a group at least 10 000 ms after the previous group
GapRule(groups) ==
    /\ \A g \in 1..Len(groups) : \A j \in 1..(Len(groups[g].photos) - 1) :
          LET d == MemberTime(groups[g].photos[j + 1])
                     - MemberTime(groups[g].photos[j])
          IN  0 <= d /\ d < 10000
    /\ \A g \in 1..(Len(groups) - 1) :
          MemberTime(groups[g + 1].photos[1])
            - MemberTime(groups[g].photos[Len(groups[g].photos)]) >= 10000

PhotosOf(items) == [k \in 1..Len(items) |-> items[k].photo]

\* C1: when the pass is done every photo of the race is a member of exactly
\* one in-range group, or of exactly one out-of-range group, or of the
\* untimed list, and the buckets hold nothing else; a photo without a
\* timestamp is in the untimed list, and a timed photo that
\* interpolatePosition cannot place is in an out-of-range group.
C1_EveryPhotoInOneBucket ==
    pc = "done" =>
      /\ \A i \in 1..Len(allPhotos) :
            LET photo == allPhotos[i]
                a == Cardinality(Slots(groupList, photo))
                b == Cardinality(Slots(oorGroups, photo))
                c == Cardinality(Occurrences(noTimestampPhotos, photo))
            IN  /\ a + b + c = 1
                /\ "timestamp" \notin DOMAIN photo => c = 1
                /\ ("timestamp" \in DOMAIN photo
                     /\ interpolatePosition(trackpoints, MemberTime(photo)) = Null)
                   => b = 1
      /\ Len(Flatten(groupList)) + Len(Flatten(oorGroups))
           + Len(noTimestampPhotos) = Len(allPhotos)

C1_Witness ==
    /\ pc = "done"
    /\ Len(groupList) > 0
    /\ Len(oorGroups) > 0
    /\ Len(noTimestampPhotos) > 0

GroupOf(k) ==
    CHOOSE g \in 1..Len(groupList) :
        \E j \in 1..Len(groupList[g].photos) :
            groupList[g].photos[j] = photoPositions[k].photo

\* the sorted in-range photos exactly 10 000 ms after their predecessor
BoundaryPhotos ==
    { k \in 2..Len(photoPositions) :
        photoPositions[k].time - photoPositions[k - 1].time = 10000 }

RECURSIVE SumOver(_, _, _)
SumOver(photos, field, j) ==
    IF j = 0 THEN Num(0)
    ELSE RAdd(SumOver(photos, field, j - 1),
              interpolatePosition(trackpoints, MemberTime(photos[j]))[field])

\* C4: after every step of the fold, a group's lat, lon and dist times its
\* member count equal the sums of its members' interpolated lat, lon and
\* dist.
C4_GroupIsMean ==
    \A g \in 1..Len(groupList) :
      LET grp == groupList[g]
          n == Len(grp.photos)
      IN  \A field \in {"lat", "lon", "dist"} :
            RMul(Num(n), grp[field]) = SumOver(grp.photos, field, n)

\* a group of three members at three different distances
C4_Witness ==
    \E g \in 1..Len(groupList) :
      LET grp == groupList[g]
      IN  /\ Len(grp.photos) >= 3
          /\ Cardinality({ interpolatePosition(trackpoints,
                                                MemberTime(grp.photos[j])).dist :
                             j \in 1..Len(grp.photos) }) >= 3

\* C5 as claimed: a group's time is the time of its latest member, and its
\* metrics are the metrics at the time of its latest member.
C5_MetricsAtLatest ==
    \A g \in 1..Len(groupList) :
      LET grp == groupList[g]
          latest == MemberTime(grp.photos[Len(grp.photos)])
      IN  /\ grp.time = latest
          /\ "metrics" \in DOMAIN grp =>
                grp.metrics = getMetricsAtTime(trackpoints, latest)

\* C5 amended: a group's time is the time of its first member and its
\* metrics are the metrics at that time; the time of the latest member is
\* kept in lastTime, which only the merge rule reads.
C5_MetricsAtFirst ==
    \A g \in 1..Len(groupList) :
      LET grp == groupList[g]
          first == MemberTime(grp.photos[1])
          latest == MemberTime(grp.photos[Len(grp.photos)])
      IN  /\ grp.time = first
          /\ grp.lastTime = latest
          /\ "metrics" \in DOMAIN grp =>
                grp.metrics = getMetricsAtTime(trackpoints, first)

\* a group whose metrics differ between its first and its latest member
C5_Witness ==
    \E g \in 1..Len(groupList) :
      LET grp == groupList[g]
      IN  /\ "metrics" \in DOMAIN grp
          /\ grp.lastTime > grp.time
          /\ getMetricsAtTime(trackpoints, grp.lastTime)
               # getMetricsAtTime(trackpoints, grp.time)

(***************************************************************************)
(* SpecInterp: one call of interpolatePosition on any track and time.      *)
(***************************************************************************)
InitInterp ==
    /\ trackpoints \in Tracks(0, MaxTrack, {0, 10000}, {-1})
    /\ utcMs \in QueryTimes(trackpoints)
    /\ pos = Null
    /\ metrics = Null
    /\ pc = "call"
    /\ CorrIdle
    /\ UiIdle
    /\ GpxIdle

Interpolate ==
    /\ pc = "call"
    /\ pos' = interpolatePosition(trackpoints, utcMs)
    /\ pc' = "returned"
    /\ UNCHANGED <<trackpoints, utcMs, metrics, corrVars, gpxVars, uiVars>>

NextInterp == Interpolate

SpecInterp == InitInterp /\ [][NextInterp]_vars

(***************************************************************************)
(* Properties of interpolatePosition (specification SpecInterp).           *)
(***************************************************************************)
First == trackpoints[1]

Last == trackpoints[Len(trackpoints)]

\* C6: interpolatePosition returns null exactly when the track is empty or
\* the time is more than 30 000 ms before the first or more than 30 000 ms
\* after the last trackpoint; a time exactly 30 000 ms outside is placed.
C6_NullExactlyOutsideTolerance ==
    pc = "returned" =>
      (pos = Null <=>
         \/ Len(trackpoints) = 0
         \/ utcMs < First.time - 30000
         \/ utcMs > Last.time + 30000)

\* a time exactly 30 000 ms after the last trackpoint is placed, and a time
\* 30 001 ms after it is not
C6_Witness ==
    /\ pc = "returned"
    /\ Len(trackpoints) > 0
    /\ \/ utcMs = Last.time + 30000 /\ pos # Null
       \/ utcMs = First.time - 30000 /\ pos # Null

InTolerance ==
    /\ Len(trackpoints) > 0
    /\ First.time - 30000 <= utcMs
    /\ utcMs <= Last.time + 30000

\* C7 as claimed: within tolerance, a time at or before the first
\* trackpoint's time yields the first trackpoint's lat, lon and dist, and a
\* time at or after the last trackpoint's time yields the last
\* trackpoint's.
C7_ClampedToEndpoints ==
    (pc = "returned" /\ InTolerance) =>
      /\ utcMs <= First.time => pos = PosOf(First)
      /\ utcMs >= Last.time => pos = PosOf(Last)

\* C7 amended: within tolerance, a time at or before the first
\* trackpoint's time yields the first trackpoint's lat, lon and dist; a
\* time at or after the last trackpoint's time and after the first
\* trackpoint's time yields the last trackpoint's.
C7_ClampedFirstWins ==
    (pc = "returned" /\ InTolerance) =>
      /\ utcMs <= First.time => pos = PosOf(First)
      /\ (utcMs >= Last.time /\ utcMs > First.time) => pos = PosOf(Last)

\* a time after the end of a track whose endpoints are at different places
C7_Witness ==
    /\ pc = "returned"
    /\ InTolerance
    /\ utcMs > Last.time
    /\ PosOf(First) # PosOf(Last)
    /\ pos = PosOf(Last)

Interior ==
    /\ Len(trackpoints) > 0
    /\ First.time < utcMs
    /\ utcMs < Last.time

\* v between x and y, in either order
Between(v, x, y) ==
    \/ RLe(Num(x), v) /\ RLe(v, Num(y))
    \/ RLe(Num(y), v) /\ RLe(v, Num(x))

\* a + (b - a) * (t - ta) / (tb - ta) as one fraction
LinearAt(a, b, ta, tb, t) == Frac(a * (tb - ta) + (b - a) * (t - ta), tb - ta)

\* C8: for a time strictly between the first and the last trackpoint's
\* time there are adjacent trackpoints a, b with a.time <= t < b.time such
\* that lat, lon and dist of the result are a + (b - a) * (t - a.time) /
\* (b.time - a.time); each lies between a's and b's value, and at the
\* middle of a.time and b.time dist is the mean of a.dist and b.dist.
C8_LinearBetweenNeighbours ==
    (pc = "returned" /\ Interior) =>
      \E i \in 1..(Len(trackpoints) - 1) :
        LET a == trackpoints[i]
            b == trackpoints[i + 1]
        IN  /\ a.time <= utcMs
            /\ utcMs < b.time
            /\ \A f \in {"lat", "lon", "dist"} :
                  /\ pos[f] = LinearAt(a[f], b[f], a.time, b.time, utcMs)
                  /\ Between(pos[f], a[f], b[f])
            /\ 2 * utcMs = a.time + b.time =>
                  pos.dist = Frac(a.dist + b.dist, 2)

\* a time at the middle of two adjacent trackpoints 100 m apart
C8_Witness ==
    /\ pc = "returned"
    /\ Interior
    /\ \E i \in 1..(Len(trackpoints) - 1) :
          /\ 2 * utcMs = trackpoints[i].time + trackpoints[i + 1].time
          /\ trackpoints[i].dist # trackpoints[i + 1].dist
          /\ trackpoints[i].time < trackpoints[i + 1].time

\* C9: on a track whose times do not decrease the result is never NaN or
\* infinite; between the endpoints the search ends on adjacent trackpoints
\* a, b with a.time <= t < b.time, so b.time - a.time > 0; and a time that
\* is the timestamp of some trackpoint yields the position of a trackpoint
\* with that timestamp (between the endpoints: of a, the ratio being 0).
C9_NoDivisionByZero ==
    (pc = "returned" /\ pos # Null) =>
      /\ \A f \in {"lat", "lon", "dist"} : IsFinite(pos[f])
      /\ Interior =>
            LET s == binarySearch(trackpoints, utcMs, 1, Len(trackpoints))
            IN  /\ s.hi = s.lo + 1
                /\ trackpoints[s.lo].time <= utcMs
                /\ utcMs < trackpoints[s.hi].time
                /\ (\E i \in 1..Len(trackpoints) : trackpoints[i].time = utcMs)
                     => pos = PosOf(trackpoints[s.lo])
      /\ (\E i \in 1..Len(trackpoints) : trackpoints[i].time = utcMs) =>
            \E j \in 1..Len(trackpoints) :
                trackpoints[j].time = utcMs /\ pos = PosOf(trackpoints[j])

\* a time between the endpoints that two adjacent trackpoints at different
\* places share as their timestamp
C9_Witness ==
    /\ pc = "returned"
    /\ Interior
    /\ \E i \in 1..(Len(trackpoints) - 1) :
          /\ trackpoints[i].time = utcMs
          /\ trackpoints[i + 1].time = utcMs
          /\ PosOf(trackpoints[i]) # PosOf(trackpoints[i + 1])
          /\ pos = PosOf(trackpoints[i + 1])

(***************************************************************************)
(* SpecMetrics: one call of getMetricsAtTime on any track and time.        *)
(***************************************************************************)
\* the tracks of the unit tests of getMetricsAtTime
TestTracks ==
    { << [lat |-> 0, lon |-> 0, time |-> 0, dist |-> 0, hr |-> 120],
         [lat |-> 10, lon |-> 0, time |-> 60000, dist |-> 111, hr |-> 130],
         [lat |-> 20, lon |-> 0, time |-> 120000, dist |-> 222, hr |-> 140],
         [lat |-> 30, lon |-> 0, time |-> 180000, dist |-> 333, hr |-> 150] >>,
      << [lat |-> 0, lon |-> 0, time |-> 0, dist |-> 0],
         [lat |-> 0, lon |-> 0, time |-> 1000, dist |-> 0] >>,
      << [lat |-> 0, lon |-> 0, time |-> 0, dist |-> 0],
         [lat |-> 0, lon |-> 0, time |-> 1000, dist |-> 100] >>,
      << [lat |-> 0, lon |-> 0, time |-> 0, dist |-> 0, hr |-> 100],
         [lat |-> 0, lon |-> 0, time |-> 60000, dist |-> 1, hr |-> 100] >> }

\* two points 1 km and exactly 5 minutes apart
FiveMinuteKm == << [lat |-> 0, lon |-> 0, time |-> 0, dist |-> 0],
                   [lat |-> 0, lon |-> 90, time |-> 300000, dist |-> 1000] >>

\* a walk of 50 m a minute, and a drift of 1 m a minute
SlowTracks ==
    { [i \in 1..3 |-> [lat |-> 0, lon |-> 0, time |-> 60000 * (i - 1),
                       dist |-> d * (i - 1)]] : d \in {1, 50} }

MetricsTracks ==
    Tracks(0, MaxMetricsTrack, {10000, 30000}, {-1, 0, 120})
      \cup TestTracks \cup {FiveMinuteKm} \cup SlowTracks

InitMetrics ==
    /\ trackpoints \in MetricsTracks
    /\ utcMs \in QueryTimes(trackpoints)
    /\ pos = Null
    /\ metrics = Null
    /\ pc = "call"
    /\ CorrIdle
    /\ UiIdle
    /\ GpxIdle

SampleMetrics ==
    /\ pc = "call"
    /\ metrics' = getMetricsAtTime(trackpoints, utcMs)
    /\ pc' = "returned"
    /\ UNCHANGED <<trackpoints, utcMs, pos, corrVars, gpxVars, uiVars>>

NextMetrics == SampleMetrics

SpecMetrics == InitMetrics /\ [][NextMetrics]_vars

(***************************************************************************)
(* Properties of getMetricsAtTime (specification SpecMetrics).             *)
(***************************************************************************)
\* C10: for every time within the track's time range the trackpoint the
\* metrics are based on is at or after the time, and for the last
\* trackpoint's time it is the last trackpoint.
C10_PointAtOrAfter ==
    (/\ pc = "returned"
     /\ Len(trackpoints) > 0
     /\ First.time <= utcMs
     /\ utcMs <= Last.time) =>
      LET p == metricsPoint(trackpoints, utcMs)
      IN  /\ trackpoints[p].time >= utcMs
          /\ utcMs = Last.time => p = Len(trackpoints)

\* the pace in min/km between two trackpoints, undefined unless they are
\* more than 1 m and more than 0 ms apart at no slower than 15 min/km
PairPace(prev, pt) ==
    LET dt == pt.time - prev.time
        dd == pt.dist - prev.dist
    IN  IF dd > 1 /\ dt > 0 /\ dt <= 900 * dd THEN Frac(dt, 60 * dd)
        ELSE Null

\* the trackpoints before the p-th that are at least 30 000 ms earlier
EarlierByWindow(p) ==
    { j \in 1..(p - 1) : trackpoints[p].time - trackpoints[j].time >= 30000 }

SetMax(S) == CHOOSE x \in S : \A y \in S : y <= x

WindowPaceRule ==
    (pc = "returned" /\ Len(trackpoints) > 0) =>
      LET p == metricsPoint(trackpoints, utcMs)
          prev == trackpoints[SetMax(EarlierByWindow(p))]
      IN  (/\ EarlierByWindow(p) # {}
           /\ PairPace(prev, trackpoints[p]) # Null) =>
             metrics.pace = PairPace(prev, trackpoints[p])

FiveMinuteKmRule ==
    (/\ pc = "returned"
     /\ Len(trackpoints) = 2
     /\ trackpoints[2].dist - trackpoints[1].dist = 1000
     /\ trackpoints[2].time - trackpoints[1].time = 300000
     /\ utcMs = trackpoints[2].time) =>
      metrics.pace = Num(5)

\* C11: when the trackpoint the metrics are based on has earlier
\* trackpoints at least 30 000 ms before it, the pace is the pace between
\* the most recent of them and that trackpoint; on a two-point track of
\* 1 km in exactly 5 minutes a query at the second point's time yields a
\* pace of 5 min/km.
C11_WindowPace == WindowPaceRule /\ FiveMinuteKmRule

\* C12: when no earlier trackpoint lies at least 30 000 ms before the
\* trackpoint the metrics are based on, the pace is the pace between the
\* immediately preceding trackpoint and that trackpoint.
C12_FallbackToPreceding ==
    (pc = "returned" /\ Len(trackpoints) > 0) =>
      LET p == metricsPoint(trackpoints, utcMs)
      IN  (p > 1 /\ EarlierByWindow(p) = {}) =>
            metrics.pace = PairPace(trackpoints[p - 1], trackpoints[p])

\* the trackpoint the metrics are based on: the last one at or before the
\* time that has a successor, the first one if there is none
BasePoint ==
    IF Len(trackpoints) = 1 THEN 1
    ELSE SetMax({1} \cup { i \in 1..(Len(trackpoints) - 1) :
                            trackpoints[i].time <= utcMs })

sampleStep(n) == IF n \div MAX_SAMPLES > 1 THEN n \div MAX_SAMPLES ELSE 1

\* the filter callback of the sampling, for the i-th of n trackpoints
\* (i counts from 1, the code's index from 0)
keepSample_StrideOnly(i, n, step) == (i - 1) % step = 0

keepSample(i, n, step) == (i - 1) % step = 0 \/ i = n

\* trackpoints.filter over the trackpoints lo..hi, halving the range
RECURSIVE filterSampled(_, _, _, _)
filterSampled(tps, lo, hi, step) ==
    IF lo > hi THEN <<>>
    ELSE IF lo = hi
         THEN IF keepSample(lo, Len(tps), step) THEN <<tps[lo]>> ELSE <<>>
    ELSE LET mid == (lo + hi) \div 2
         IN  filterSampled(tps, lo, mid, step)
               \o filterSampled(tps, mid + 1, hi, step)

sampleTrack(tps) == filterSampled(tps, 1, Len(tps), sampleStep(Len(tps)))

timeLabel(pt) ==
    LET localTime == pt.time + 8 * 3600 * 1000
    IN  << (localTime \div 3600000) % 24, (localTime \div 60000) % 60,
           (localTime \div 1000) % 60 >>

distLabel(pt) == (pt.dist + 5) \div 10

\* the loop that looks for the sample about PACE_WINDOW seconds ago
RECURSIVE chartWindowStart(_, _, _, _)
chartWindowStart(sampled, pt, j, prev) ==
    IF j < 1 THEN prev
    ELSE IF pt.time - sampled[j].time >= PACE_WINDOW * 1000 THEN sampled[j]
    ELSE chartWindowStart(sampled, pt, j - 1, prev)

chartPace(prev, pt) ==
    LET timeDiffMin == Frac(pt.time - prev.time, 60000)
        distDiffKm == Frac(pt.dist - prev.dist, 1000)
    IN  IF RLt(Frac(1, 1000), distDiffKm) /\ RLt(Num(0), timeDiffMin)
        THEN LET pace == RDiv(timeDiffMin, distDiffKm)
             IN  IF RLt(Num(15), pace) THEN Null ELSE pace
        ELSE Null

\* the pace pushed for the i-th sample (i counts from 1)
samplePace(sampled, i) ==
    IF i = 1 THEN Null
    ELSE chartPace(chartWindowStart(sampled, sampled[i], i - 1,
                                    sampled[i - 1]),
                   sampled[i])

(***************************************************************************)
(* SpecChart: one call of renderGpxChart on any track.                     *)
(***************************************************************************)
\* the track of the unit test of renderGpxChart that has elevations
ChartTestTrack ==
    << [lat |-> 0, lon |-> 0, time |-> 0, dist |-> 0, ele |-> 10],
       [lat |-> 10000, lon |-> 10000, time |-> 60000, dist |-> 1000,
        ele |-> 20] >>

\* a track of n points recorded every 30 s along the staircase path, one
\* place further at every point (gait 1) or at every other point (gait 2)
LongTrack(n, gait) ==
    [i \in 1..n |->
        LET k == (i + gait - 2) \div gait
        IN  [lat |-> PlaceAt(k)[1], lon |-> PlaceAt(k)[2],
             time |-> 30000 * (i - 1), dist |-> 100 * k]]

LongTracks ==
    { LongTrack(n, gait) :
        n \in (2 * MAX_SAMPLES - 1)..MaxLongTrack, gait \in {1, 2} }

ChartTracks ==
    Tracks(0, MaxChartTrack, {10000, 30000}, {-1, 120})
      \cup TestTracks \cup SlowTracks \cup {FiveMinuteKm, ChartTestTrack}
      \cup LongTracks

InitChart ==
    /\ trackpoints \in ChartTracks
    /\ chartLib \in BOOLEAN
    /\ chart = Null
    /\ doc = <<>>
    /\ pc = "render"
    /\ utcMs = 0
    /\ pos = Null
    /\ metrics = Null
    /\ CorrIdle
    /\ UiIdle

\* line 427: nothing is drawn without the chart library or two trackpoints
NoChart ==
    /\ pc = "render"
    /\ ~chartLib \/ Len(trackpoints) < 2
    /\ pc' = "nochart"
    /\ UNCHANGED <<trackpoints, corrVars, queryVars, gpxVars, uiVars>>

SampleTrack ==
    /\ pc = "render"
    /\ chartLib /\ Len(trackpoints) >= 2
    /\ chart' = [sampled |-> sampleTrack(trackpoints), timeLabels |-> <<>>,
                 distLabels |-> <<>>, elevationData |-> <<>>,
                 paceData |-> <<>>, hrData |-> <<>>, hasHr |-> FALSE]
    /\ idx' = 1
    /\ pc' = "samples"
    /\ UNCHANGED <<trackpoints, allPhotos, photoPositions, outOfRangePhotos,
                   noTimestampPhotos, groupList, oorGroups, queryVars, doc,
                   chartLib, uiVars>>

\* one iteration of sampled.forEach
PlotSample ==
    /\ pc = "samples"
    /\ idx <= Len(chart.sampled)
    /\ LET pt == chart.sampled[idx]
       IN  chart' =
             [chart EXCEPT
                !.timeLabels = Append(@, timeLabel(pt)),
                !.distLabels = Append(@, distLabel(pt)),
                !.elevationData =
                    Append(@, IF "ele" \in DOMAIN pt THEN Num(pt.ele)
                              ELSE Null),
                !.hrData =
                    Append(@, IF "hr" \in DOMAIN pt THEN Num(pt.hr) ELSE Null),
                !.hasHr = @ \/ "hr" \in DOMAIN pt,
                !.paceData = Append(@, samplePace(chart.sampled, idx))]
    /\ idx' = idx + 1
    /\ UNCHANGED <<trackpoints, allPhotos, pc, photoPositions,
                   outOfRangePhotos, noTimestampPhotos, groupList, oorGroups,
                   queryVars, doc, chartLib, uiVars>>

\* the series are complete: the chart is built from them
DrawChart ==
    /\ pc = "samples"
    /\ idx > Len(chart.sampled)
    /\ pc' = "charted"
    /\ UNCHANGED <<trackpoints, corrVars, queryVars, gpxVars, uiVars>>

NextChart ==
    \/ NoChart
    \/ SampleTrack
    \/ PlotSample
    \/ DrawChart

SpecChart == InitChart /\ [][NextChart]_vars

Sampled == pc \in {"samples", "charted"}

\* the places in the track of the samples the claimed rule keeps, in order
KeptIndexes ==
    LET n == Len(trackpoints)
        stride == IF n \div 500 > 1 THEN n \div 500 ELSE 1
        onStride == (n - 1) \div stride + 1
    IN  [j \in 1..(IF (n - 1) % stride = 0 THEN onStride ELSE onStride + 1) |->
            IF j <= onStride THEN (j - 1) * stride + 1 ELSE n]

\* C17: the samples are the trackpoints whose index is a multiple of
\* stride = max(1, floor(n / 500)) and the last trackpoint, in track order,
\* each once; the first and the last trackpoint are among them.
C17_StrideAndLast ==
    Sampled =>
      /\ Len(trackpoints) >= 2
      /\ Len(chart.sampled) = Len(KeptIndexes)
      /\ \A j \in 1..Len(KeptIndexes) :
            chart.sampled[j] = trackpoints[KeptIndexes[j]]
      /\ chart.sampled[1] = trackpoints[1]
      /\ chart.sampled[Len(chart.sampled)] = trackpoints[Len(trackpoints)]

C17_Witness ==
    /\ pc = "charted"
    /\ Len(trackpoints) = 2 * 500
    /\ Len(chart.sampled) = 500 + 1
    /\ chart.sampled[500] = trackpoints[2 * 500 - 1]
    /\ chart.sampled[500 + 1] = trackpoints[2 * 500]

\* the pace of the windowed algorithm at the i-th trackpoint of the full
\* track: against the most recent trackpoint at least 30 000 ms earlier,
\* or the preceding trackpoint if there is none
FullTrackPace(i) ==
    IF i = 1 THEN Null
    ELSE LET prev == IF EarlierByWindow(i) # {}
                     THEN trackpoints[SetMax(EarlierByWindow(i))]
                     ELSE trackpoints[i - 1]
         IN  PairPace(prev, trackpoints[i])

\* C18: the pace pushed for a sample equals the pace of the windowed
\* algorithm at that trackpoint against the full, unsampled track.
C18_PaceOfFullTrack ==
    (Sampled /\ Len(chart.paceData) > 0) =>
      LET j == Len(chart.paceData)
      IN  chart.paceData[j] = FullTrackPace(KeptIndexes[j])

\* C19: the sampler never emits more than 500 samples.
C19_AtMostMaxSamples == Sampled => Len(chart.sampled) <= 500

(***************************************************************************)
(* SpecPace: one call of getMetricsAtTime or one call of renderGpxChart,   *)
(* the two places that compute a pace.                                     *)
(***************************************************************************)
InitPace == InitMetrics \/ InitChart

NextPace == NextMetrics \/ NextChart

SpecPace == InitPace /\ [][NextPace]_vars

PaceInRange(v) ==
    v # Null => IsFinite(v) /\ RLt(Num(0), v) /\ RLe(v, Num(15))

\* C13: every pace of getMetricsAtTime and of the chart is undefined or a
\* finite number in (0, 15]; a defined pace is the pace between two points
\* more than 1 m and more than 0 ms apart at no slower than 15 min/km.
C13_PaceWithinCap ==
    /\ (pc = "returned" /\ Len(trackpoints) > 0) =>
          /\ PaceInRange(metrics.pace)
          /\ metrics.pace # Null =>
                \E a \in 1..(BasePoint - 1) :
                    PairPace(trackpoints[a], trackpoints[BasePoint])
                      = metrics.pace
    /\ (Sampled /\ Len(chart.paceData) > 0) =>
          LET j == Len(chart.paceData)
          IN  /\ \A k \in 1..j : PaceInRange(chart.paceData[k])
              /\ chart.paceData[j] # Null =>
                    \E a \in 1..(j - 1) :
                        PairPace(chart.sampled[a], chart.sampled[j])
                          = chart.paceData[j]

C13_Witness ==
    /\ pc = "returned"
    /\ Len(trackpoints) = 3
    /\ BasePoint = 2
    /\ trackpoints[2].dist - trackpoints[1].dist = 50
    /\ trackpoints[2].time - trackpoints[1].time = 60000
    /\ metrics.pace = Null

(***************************************************************************)
(* SpecEngine: one call of interpolatePosition, of getMetricsAtTime or of  *)
(* renderGpxChart on any track.                                            *)
(***************************************************************************)
InitEngine == InitInterp \/ InitMetrics \/ InitChart

NextEngine == NextInterp \/ NextMetrics \/ NextChart

SpecEngine == InitEngine /\ [][NextEngine]_vars

\* C20: no operation raises on an empty or too short track:
\* interpolatePosition gives no position and getMetricsAtTime no pace and
\* no heart rate on an empty track, renderGpxChart builds no series on a
\* track of fewer than 2 points.
C20_NeverRaises ==
    /\ (pc = "returned" /\ Len(trackpoints) = 0) =>
          /\ pos = Null
          /\ metrics \in {Null, [pace |-> Null, hr |-> Null]}
    /\ Len(trackpoints) < 2 => chart = Null /\ pc \notin {"samples", "charted"}

(***************************************************************************)
(* SpecParse: one call of parseGpx on any GPX document.                    *)
(***************************************************************************)
PointKinds == {"plain", "full", "noLat", "noLon", "noTime", "badTime"}

\* the i-th trkpt of a document: recorded at place PlaceAt(k), 10 s after
\* the one before it
RawPoint(kind, k, i) ==
    LET lat == PlaceAt(k)[1]
        lon == PlaceAt(k)[2]
        time == 10000 * (i - 1)
    IN  CASE kind = "plain" -> [lat |-> lat, lon |-> lon, time |-> time]
          [] kind = "full" -> [lat |-> lat, lon |-> lon, time |-> time,
                               ele |-> 10, hr |-> 120]
          [] kind = "noLat" -> [lon |-> lon, time |-> time]
          [] kind = "noLon" -> [lat |-> lat, time |-> time]
          [] kind = "noTime" -> [lat |-> lat, lon |-> lon]
          [] kind = "badTime" -> [lat |-> lat, lon |-> lon,
                                  timeText |-> "not a date"]

\* the document of n trkpt elements of the given kinds at the given places
GpxDoc(n, kind, k) == [i \in 1..n |-> RawPoint(kind[i], k[i], i)]

InitParse ==
    /\ \E n \in 0..MaxDoc :
          \E kind \in [1..n -> PointKinds], k \in [1..n -> 0..2] :
             doc = GpxDoc(n, kind, k)
    /\ trackpoints = <<>>
    /\ pc = "parse"
    /\ chartLib = FALSE
    /\ chart = Null
    /\ utcMs = 0
    /\ pos = Null
    /\ metrics = Null
    /\ CorrIdle
    /\ UiIdle

Parse ==
    /\ pc = "parse"
    /\ trackpoints' = parseGpx(doc)
    /\ pc' = "parsed"
    /\ UNCHANGED <<corrVars, queryVars, gpxVars, uiVars>>

NextParse == Parse

SpecParse == InitParse /\ [][NextParse]_vars

\* a raw point with a parseable timestamp and a numeric lat and lon
Acceptable(pt) ==
    "time" \in DOMAIN pt /\ "lat" \in DOMAIN pt /\ "lon" \in DOMAIN pt

\* C15: the track consists of exactly the raw points that have a parseable
\* timestamp and a numeric lat and lon, in input order; every trackpoint
\* has a numeric time, lat and lon.
C15_SkipsUnusablePoints ==
    pc = "parsed" =>
      LET usable == SelectSeq(doc, Acceptable)
      IN  /\ Len(trackpoints) = Len(usable)
          /\ \A j \in 1..Len(trackpoints) :
                /\ {"time", "lat", "lon"} \subseteq DOMAIN trackpoints[j]
                /\ trackpoints[j].time = usable[j].time
                /\ trackpoints[j].lat = usable[j].lat
                /\ trackpoints[j].lon = usable[j].lon

\* C16: the first trackpoint is at distance 0 and every later one at the
\* distance of the trackpoint before it plus the haversine distance between
\* the two, whatever raw points were skipped between them.
C16_CumulativeDistance ==
    pc = "parsed" =>
      /\ Len(trackpoints) > 0 => trackpoints[1].dist = 0
      /\ \A j \in 1..(Len(trackpoints) - 1) :
            /\ trackpoints[j + 1].dist =
                 trackpoints[j].dist
                   + haversine(trackpoints[j].lat, trackpoints[j].lon,
                               trackpoints[j + 1].lat, trackpoints[j + 1].lon)
            /\ trackpoints[j].dist <= trackpoints[j + 1].dist

C16_Witness ==
    /\ pc = "parsed"
    /\ Len(doc) = 3
    /\ ~Acceptable(doc[2])
    /\ {"lat", "lon"} \subseteq DOMAIN doc[2]
    /\ <<doc[2].lat, doc[2].lon>> = PlaceAt(1)
    /\ Len(trackpoints) = 2
    /\ <<trackpoints[1].lat, trackpoints[1].lon>> = PlaceAt(0)
    /\ <<trackpoints[2].lat, trackpoints[2].lon>> = PlaceAt(2)
    /\ trackpoints[2].dist = 141

(***************************************************************************)
(* formatPace.  The text M'SS" is the record of its two numbers, the empty *)
(* string the record [text |-> ""].                                        *)
(***************************************************************************)
Floor(x) == x.n \div x.d

\* Math.round: the nearest integer, halves upwards
Round(x) == Floor(RAdd(x, Frac(1, 2)))

formatPace(pace) ==
    IF pace = Null THEN [text |-> ""]
    ELSE LET mins == Floor(pace)
             secs == Round(RMul(RSub(pace, Num(mins)), Num(60)))
         IN  [mins |-> mins, secs |-> secs]

(***************************************************************************)
(* SpecFormat: one call of formatPace on no pace or on a pace that is a    *)
(* whole number of half seconds per kilometre.                             *)
(***************************************************************************)
PaceGrain == 120

InitFormat ==
    /\ paceIn \in {Null} \cup { Frac(k, PaceGrain) : k \in 0..(MaxPaceMin * PaceGrain) }
    /\ paceText = Null
    /\ pc = "format"
    /\ trackpoints = <<>>
    /\ utcMs = 0
    /\ pos = Null
    /\ metrics = Null
    /\ CorrIdle
    /\ GpxIdle
    /\ KmIdle
    /\ ViewIdle

FormatPace ==
    /\ pc = "format"
    /\ paceText' = formatPace(paceIn)
    /\ pc' = "formatted"
    /\ UNCHANGED <<trackpoints, corrVars, queryVars, gpxVars, paceIn, kmVars, viewVars>>

NextFormat == FormatPace

SpecFormat == InitFormat /\ [][NextFormat]_vars

\* C30: for every pace p >= 0 the seconds field is between 0 and 59 and
\* 60 * M + SS is 60 * p rounded to the nearest second.
C30_SecondsBelowSixty ==
    (pc = "formatted" /\ paceIn # Null) =>
      /\ paceText.secs \in 0..59
      /\ 60 * paceText.mins + paceText.secs = Round(RMul(paceIn, Num(60)))

(***************************************************************************)
(* The kilometre markers of the route map (renderRaceDetail).  A marker is *)
(* the record of its kilometre and its interpolated lat and lon; reading   *)
(* a field of trackpoints[i + 1] past the end of the track throws.         *)
(***************************************************************************)
\* the while loop of the marker: the segment the search stops at
RECURSIVE kmSegment_SkipEqual(_, _, _)
kmSegment_SkipEqual(tps, targetDist, i) ==
    IF i < Len(tps) /\ tps[i + 1].dist <= targetDist
    THEN kmSegment_SkipEqual(tps, targetDist, i + 1)
    ELSE i

RECURSIVE kmSegment(_, _, _)
kmSegment(tps, targetDist, i) ==
    IF i < Len(tps) /\ tps[i + 1].dist < targetDist
    THEN kmSegment(tps, targetDist, i + 1)
    ELSE i

kmMarker(tps, k) ==
    LET targetDist == k * 1000
        i == kmSegment(tps, targetDist, 1)
    IN  IF i + 1 > Len(tps) THEN Threw
        ELSE LET a == tps[i]
                 b == tps[i + 1]
                 ratio == Frac(targetDist - a.dist, b.dist - a.dist)
             IN  [km |-> k,
                  lat |-> RAdd(Num(a.lat), RMul(Num(b.lat - a.lat), ratio)),
                  lon |-> RAdd(Num(a.lon), RMul(Num(b.lon - a.lon), ratio))]

(***************************************************************************)
(* SpecKm: the marker loop on a parsed, non-empty track whose points lie   *)
(* along the equator, each where the one before is, 300 m or 500 m on.     *)
(***************************************************************************)
RECURSIVE LonAt(_, _)
LonAt(hop, i) == IF i = 1 THEN 0 ELSE LonAt(hop, i - 1) + hop[i - 1]

KmTrack(n, hop) ==
    parseGpx([i \in 1..n |-> [lat |-> 0, lon |-> LonAt(hop, i),
                              time |-> 30000 * (i - 1)]])

InitKm ==
    /\ \E n \in 1..MaxKmTrack : \E hop \in [1..(n - 1) -> {0, 27, 45}] :
          trackpoints = KmTrack(n, hop)
    /\ km = 1
    /\ kmMarkers = <<>>
    /\ pc = "km"
    /\ utcMs = 0
    /\ pos = Null
    /\ metrics = Null
    /\ CorrIdle
    /\ GpxIdle
    /\ FormatIdle
    /\ ViewIdle

totalDist == trackpoints[Len(trackpoints)].dist

\* one iteration of the for loop over the kilometres
PlaceKmMarker ==
    /\ pc = "km"
    /\ km * 1000 <= totalDist
    /\ LET marker == kmMarker(trackpoints, km)
       IN  IF marker = Threw
           THEN pc' = "threw" /\ UNCHANGED kmVars
           ELSE /\ kmMarkers' = Append(kmMarkers, marker)
                /\ km' = km + 1
                /\ pc' = pc
    /\ UNCHANGED <<trackpoints, corrVars, queryVars, gpxVars, formatVars,
                   viewVars>>

KmDone ==
    /\ pc = "km"
    /\ km * 1000 > totalDist
    /\ pc' = "kmdone"
    /\ UNCHANGED <<trackpoints, corrVars, queryVars, gpxVars, uiVars>>

NextKm == PlaceKmMarker \/ KmDone

SpecKm == InitKm /\ [][NextKm]_vars

\* C29: for every whole kilometre k within the track the search stops at a
\* segment i, i + 1 of the track with dist[i] < 1000 k <= dist[i + 1]; no
\* marker reads past the end of the track or divides by zero, and
\* floor(totalDist / 1000) markers are placed.
C29_KmMarkersSafe ==
    /\ pc # "threw"
    /\ pc \in {"km", "kmdone"} =>
          /\ \A k \in 1..(totalDist \div 1000) :
                LET i == kmSegment(trackpoints, 1000 * k, 1)
                IN  /\ i + 1 <= Len(trackpoints)
                    /\ trackpoints[i].dist < 1000 * k
                    /\ 1000 * k <= trackpoints[i + 1].dist
          /\ \A m \in 1..Len(kmMarkers) :
                /\ kmMarkers[m].km = m
                /\ IsFinite(kmMarkers[m].lat)
                /\ IsFinite(kmMarkers[m].lon)
    /\ pc = "kmdone" => Len(kmMarkers) = totalDist \div 1000

\* a track that stands still exactly at the first kilometre and goes on
C29_Witness ==
    /\ pc = "kmdone"
    /\ Len(kmMarkers) = 1
    /\ \E i \in 1..(Len(trackpoints) - 1) :
          /\ trackpoints[i].dist = 1000
          /\ trackpoints[i + 1].dist = 1000
    /\ totalDist > 1000
    /\ kmMarkers[1].lon = Num(90)

(***************************************************************************)
(* The lightbox: initLightbox, openLightbox, closeLightbox.                *)
(***************************************************************************)

MaxEvents == 3      \* most user events of a lightbox session

\* a media source is a file name: a stem and the text after its last dot
MediaSrcs ==
    { [stem |-> "test", ext |-> e] : e \in {"jpg", "mp4", "MOV", "webm", "mp3"} }

LowerCase(e) == IF e = "MOV" THEN "mov" ELSE e

\* /\.(mp4|mov|webm)$/i.test(mediaSrc)
isVideo(mediaSrc) == LowerCase(mediaSrc.ext) \in {"mp4", "mov", "webm"}

\* the element initLightbox builds: no class 'active', empty content
newLightbox == [active |-> FALSE, content |-> [tag |-> "none"]]

openLightbox(lb, mediaSrc) ==
    [active |-> TRUE,
     content |-> IF isVideo(mediaSrc)
                 THEN [tag |-> "video", src |-> mediaSrc, paused |-> FALSE]
                 ELSE [tag |-> "img", src |-> mediaSrc]]

closeLightbox(lb) ==
    [active |-> FALSE,
     content |-> IF lb.content.tag = "video"
                 THEN [lb.content EXCEPT !.paused = TRUE]
                 ELSE lb.content]

\* the click listener of the close button
onCloseClick(lb, target) ==
    IF target = "lightbox-close" THEN closeLightbox(lb) ELSE lb

onLightboxClick_AnyTarget(lb, target) ==
    closeLightbox(lb)

\* the click listener of the lightbox: clicks of its children bubble to it
onLightboxClick(lb, target) ==
    IF target = "lightbox" THEN closeLightbox(lb) ELSE lb

\* the keydown listener of the document
onKeyDown(lb, key) ==
    IF key = "Escape" /\ lb.active THEN closeLightbox(lb) ELSE lb

InitLightbox ==
    /\ lightbox = newLightbox
    /\ events = <<>>
    /\ pc = "lightbox"
    /\ trackpoints = <<>>
    /\ utcMs = 0
    /\ pos = Null
    /\ metrics = Null
    /\ call = Null
    /\ PageIdle
    /\ CorrIdle
    /\ GpxIdle
    /\ FormatIdle
    /\ KmIdle

BoxFrame ==
    UNCHANGED <<trackpoints, pc, corrVars, queryVars, gpxVars, formatVars,
                kmVars, call, pageVars>>

OpenLightbox ==
    /\ pc = "lightbox"
    /\ Len(events) < MaxEvents
    /\ \E mediaSrc \in MediaSrcs :
          /\ lightbox' = openLightbox(lightbox, mediaSrc)
          /\ events' = Append(events, [kind |-> "open", src |-> mediaSrc])
    /\ BoxFrame

\* a click inside the lightbox: the listener of the target runs, then the
\* listener of the lightbox
Click ==
    /\ pc = "lightbox"
    /\ Len(events) < MaxEvents
    /\ \E target \in {"lightbox-close", "lightbox", "lightbox-content"} :
          /\ lightbox' = onLightboxClick(onCloseClick(lightbox, target), target)
          /\ events' = Append(events, [kind |-> "click", target |-> target])
    /\ BoxFrame

KeyDown ==
    /\ pc = "lightbox"
    /\ Len(events) < MaxEvents
    /\ \E key \in {"Escape", "Enter"} :
          /\ lightbox' = onKeyDown(lightbox, key)
          /\ events' = Append(events, [kind |-> "keydown", key |-> key])
    /\ BoxFrame

NextLightbox == OpenLightbox \/ Click \/ KeyDown

SpecLightbox == InitLightbox /\ [][NextLightbox]_vars

Closing(e) ==
    \/ e.kind = "click" /\ e.target \in {"lightbox-close", "lightbox"}
    \/ e.kind = "keydown" /\ e.key = "Escape"

\* C26: after any sequence of user events the lightbox is active exactly
\* when some openLightbox has no closing event after it, where the closing
\* events are a click of the close button, a click whose target is the
\* lightbox itself and an Escape key; clicks of the content and other keys
\* change nothing.
C26_ActiveIffOpenSinceLastClose ==
    pc = "lightbox" =>
      (lightbox.active <=>
         \E i \in 1..Len(events) :
            /\ events[i].kind = "open"
            /\ \A j \in (i + 1)..Len(events) : ~Closing(events[j]))

\* an open lightbox that survived a click of its content and was closed by
\* Escape
C26_Witness ==
    /\ pc = "lightbox"
    /\ Len(events) = 3
    /\ events[1].kind = "open"
    /\ events[2] = [kind |-> "click", target |-> "lightbox-content"]
    /\ events[3] = [kind |-> "keydown", key |-> "Escape"]
    /\ ~lightbox.active

(***************************************************************************)
(* SpecViews: the grouping pass of the detail view while a second view     *)
(* calls interpolatePosition, getMetricsAtTime and the profile sampler on  *)
(* the same track, in any interleaving.                                    *)
(***************************************************************************)

MaxViewTrack == 2   \* longest track two views share
MaxViewPhotos == 2  \* most photos of the race two views share

ViewTracks == Tracks(1, MaxViewTrack, {30000}, {-1})

ViewPhotoLists == { photos \in PhotoLists : Len(photos) <= MaxViewPhotos }

EngineCalls ==
    { [fn |-> f, t |-> t] : f \in {"interpolatePosition", "getMetricsAtTime"},
                            t \in PhotoTimes }
      \cup { [fn |-> "sampleTrack", t |-> 0] }

\* the value the call returns on the track
engineResult(tps, c) ==
    CASE c.fn = "interpolatePosition" -> interpolatePosition(tps, c.t)
      [] c.fn = "getMetricsAtTime" -> getMetricsAtTime(tps, c.t)
      [] c.fn = "sampleTrack" -> sampleTrack(tps)

InitViews ==
    /\ trackpoints \in ViewTracks
    /\ allPhotos \in ViewPhotoLists
    /\ pc = "classify"
    /\ idx = 1
    /\ photoPositions = <<>>
    /\ outOfRangePhotos = <<>>
    /\ noTimestampPhotos = <<>>
    /\ groupList = <<>>
    /\ oorGroups = <<>>
    /\ utcMs = 0
    /\ pos = Null
    /\ metrics = Null
    /\ GpxIdle
    /\ UiIdle

\* the second view calls the engine on the shared track
CallEngine ==
    /\ \E c \in EngineCalls :
          call' = [fn |-> c.fn, t |-> c.t,
                   result |-> engineResult(trackpoints, c)]
    /\ UNCHANGED <<trackpoints, pc, corrVars, queryVars, gpxVars, formatVars,
                   kmVars, boxVars, pageVars>>

NextViews == Next \/ CallEngine

SpecViews == InitViews /\ [][NextViews]_vars

\* what was computed from the track earlier is what the same call computes
\* from the track now
Repeatable ==
    /\ call # Null => call.result = engineResult(trackpoints, call)
    /\ \A i \in 1..Len(photoPositions) :
          LET pp == photoPositions[i]
              p == interpolatePosition(trackpoints, pp.time)
          IN  p # Null /\ p.lat = pp.lat /\ p.lon = pp.lon /\ p.dist = pp.dist
    /\ \A i \in 1..Len(outOfRangePhotos) :
          interpolatePosition(trackpoints, outOfRangePhotos[i].time) = Null
    /\ \A g \in 1..Len(groupList) :
          "metrics" \in DOMAIN groupList[g] =>
             groupList[g].metrics = groupMetrics(trackpoints, groupList[g])

\* C23: no step of the grouping pass and no call of interpolatePosition,
\* getMetricsAtTime or the profile sampler changes the track, its
\* trackpoints or the photo lists; so a result computed earlier equals what
\* the same call returns at any later point of any interleaving of the two
\* views.
C23_NoSharedStateMutated ==
    /\ [][trackpoints' = trackpoints /\ allPhotos' = allPhotos]_vars
    /\ []Repeatable

\* the pass has finished over photos that were not in time order, with
\* groups on the map, and the second view has sampled the metrics
C23_Witness ==
    /\ pc = "done"
    /\ Len(allPhotos) = 2
    /\ "timestamp" \in DOMAIN allPhotos[1]
    /\ "timestamp" \in DOMAIN allPhotos[2]
    /\ allPhotos[2].timestamp < allPhotos[1].timestamp
    /\ Len(groupList) > 0
    /\ call # Null
    /\ call.fn = "getMetricsAtTime"

(***************************************************************************)
(* The grouping pass and the order of its input (specification Spec).      *)
(***************************************************************************)
\* what the forEach of lines 716-728 computes for one photo: nothing for a
\* photo without a timestamp, else its time and its position on the track
classifyPhoto(tps, photo) ==
    IF "timestamp" \notin DOMAIN photo THEN [photo |-> photo]
    ELSE LET t == photoTimestampToUtc(photo.timestamp)
         IN  [photo |-> photo, time |-> t, pos |-> interpolatePosition(tps, t)]

\* the entries of photoPositions (inRange) or of outOfRangePhotos, in the
\* order of the classified photos
RECURSIVE Classified(_, _, _)
Classified(cs, i, inRange) ==
    IF i > Len(cs) THEN <<>>
    ELSE LET c == cs[i]
             rest == Classified(cs, i + 1, inRange)
         IN  IF "time" \notin DOMAIN c THEN rest
             ELSE IF inRange /\ c.pos # Null
             THEN <<[photo |-> c.photo, lat |-> c.pos.lat, lon |-> c.pos.lon,
                     dist |-> c.pos.dist, time |-> c.time]>> \o rest
             ELSE IF ~inRange /\ c.pos = Null
             THEN <<[photo |-> c.photo, time |-> c.time]>> \o rest
             ELSE rest

RECURSIVE FoldInRange(_, _, _)
FoldInRange(groups, items, i) ==
    IF i > Len(items) THEN groups
    ELSE FoldInRange(mergeIntoGroups(groups, items[i]), items, i + 1)

RECURSIVE FoldOutOfRange(_, _, _)
FoldOutOfRange(groups, items, i) ==
    IF i > Len(items) THEN groups
    ELSE FoldOutOfRange(mergeIntoOorGroups(groups, items[i]), items, i + 1)

\* the in-range groups the pass builds from the classified photos
InRangeGroupsOf(cs) ==
    FoldInRange(<<>>, SortByTime(Classified(cs, 1, TRUE)), 1)

\* the out-of-range groups the pass builds from the classified photos
OutOfRangeGroupsOf(cs) ==
    FoldOutOfRange(<<>>, SortByTime(Classified(cs, 1, FALSE)), 1)

Members(group) == { group.photos[j] : j \in 1..Len(group.photos) }

\* the same groups in the same order: same members, same times
SamePartition(gs, hs) ==
    /\ Len(gs) = Len(hs)
    /\ \A g \in 1..Len(gs) :
          /\ Members(gs[g]) = Members(hs[g])
          /\ Len(gs[g].photos) = Len(hs[g].photos)
          /\ gs[g].time = hs[g].time
          /\ gs[g].lastTime = hs[g].lastTime

SameMeans(gs, hs) ==
    \A g \in 1..Len(gs) :
       /\ gs[g].lat = hs[g].lat
       /\ gs[g].lon = hs[g].lon
       /\ gs[g].dist = hs[g].dist

Ascending(gs) ==
    /\ \A g \in 1..(Len(gs) - 1) : gs[g].lastTime < gs[g + 1].time
    /\ \A g \in 1..Len(gs) :
          /\ gs[g].time = MemberTime(gs[g].photos[1])
          /\ \A j \in 1..(Len(gs[g].photos) - 1) :
                MemberTime(gs[g].photos[j]) <= MemberTime(gs[g].photos[j + 1])

\* the photos in every order, each with what the forEach computes for it
Reordered(tps, photos) ==
    LET cs == [i \in 1..Len(photos) |-> classifyPhoto(tps, photos[i])]
    IN  { [i \in 1..Len(photos) |-> cs[perm[i]]] :
            perm \in Permutations(1..Len(photos)) }

\* C24: once the pass has grouped the photos, the in-range and the
\* out-of-range groups are those the pass builds from any reordering of the
\* photos: the same members in the same groups, the same mean positions;
\* the groups are in ascending time order and so are the members of a
\* group.
C24_GroupsIndependentOfInputOrder ==
    pc = "done" =>
      /\ \A cs \in Reordered(trackpoints, allPhotos) :
            LET inRange == InRangeGroupsOf(cs)
                outOfRange == OutOfRangeGroupsOf(cs)
            IN  /\ SamePartition(groupList, inRange)
                /\ SameMeans(groupList, inRange)
                /\ SamePartition(oorGroups, outOfRange)
      /\ Ascending(groupList)
      /\ Ascending(oorGroups)

\* three timed photos given latest first: two of them share a group on the
\* track, one is outside the track's time range
C24_Witness ==
    /\ pc = "done"
    /\ Len(allPhotos) = 3
    /\ \A i \in 1..3 : "timestamp" \in DOMAIN allPhotos[i]
    /\ allPhotos[1].timestamp > allPhotos[2].timestamp
    /\ allPhotos[2].timestamp > allPhotos[3].timestamp
    /\ \E g \in 1..Len(groupList) : Len(groupList[g].photos) = 2
    /\ Len(oorGroups) = 1

(***************************************************************************)
(* The page: render, scanDirectory, handleRoute, renderOverview and        *)
(* renderRaceDetail with its GPX fetch and its 100 ms map timer.           *)
(***************************************************************************)

MaxNav == 2         \* most hashchange events of a session

\* a string is a sequence of characters
HexDigits == {"0", "1", "2", "3", "4", "5", "6", "7", "8", "9",
              "a", "b", "c", "d", "e", "f", "A", "B", "C", "D", "E", "F"}

\* the character of a percent escape (the escapes the hashes here use)
escaped(h, l) ==
    CASE h = "2" /\ l = "0" -> " "
      [] h = "2" /\ l = "5" -> "%"
      [] OTHER -> "?"

URIError == [threw |-> "URIError"]

\* decodeURIComponent: a percent sign must start an escape of two
\* hexadecimal digits, else URIError; the result is [text |-> the string]
RECURSIVE decodeFrom(_, _)
decodeFrom(str, i) ==
    IF i > Len(str) THEN [text |-> <<>>]
    ELSE IF str[i] # "%"
         THEN LET rest == decodeFrom(str, i + 1)
              IN  IF rest = URIError THEN URIError
                  ELSE [text |-> <<str[i]>> \o rest.text]
    ELSE IF i + 2 > Len(str) \/ str[i + 1] \notin HexDigits
                             \/ str[i + 2] \notin HexDigits
         THEN URIError
    ELSE LET rest == decodeFrom(str, i + 3)
         IN  IF rest = URIError THEN URIError
             ELSE [text |-> <<escaped(str[i + 1], str[i + 2])>> \o rest.text]

decodeURIComponent(str) == decodeFrom(str, 1)

\* String.prototype.slice(1)
slice1(str) == IF Len(str) = 0 THEN <<>> ELSE Tail(str)

\* the fragments a session visits: none, "#a", "#a%20b", "#x", "#%"
Hashes ==
    { <<>>, <<"#", "a">>, <<"#", "a", "%", "2", "0", "b">>, <<"#", "x">>,
      <<"#", "%">> }

RaceA ==
    [name |-> <<"a">>, route |-> "a.gpx",
     sources |-> << [name |-> "s1",
                     photos |-> << [id |-> 1, timestamp |-> 30000 + UtcOffsetMs],
                                   [id |-> 2] >>],
                    [name |-> "s2",
                     photos |-> << [id |-> 3, timestamp |-> 25000 + UtcOffsetMs],
                                   [id |-> 4, timestamp |-> 100000 + UtcOffsetMs] >>] >>]

RaceB ==
    [name |-> <<"a", " ", "b">>,
     sources |-> << [name |-> "s1",
                     photos |-> << [id |-> 5, timestamp |-> 45000 + UtcOffsetMs],
                                   [id |-> 6],
                                   [id |-> 7, timestamp |-> 30000 + UtcOffsetMs] >>] >>]

\* a second race named "a", without a route and without timestamps
RaceA2 ==
    [name |-> <<"a">>,
     sources |-> << [name |-> "s1", photos |-> << [id |-> 8] >>],
                    [name |-> "s2", photos |-> << [id |-> 9] >>] >>]

\* the manifests a server holds
Manifests ==
    { [races |-> <<>>], [races |-> <<RaceA, RaceB>>],
      [races |-> <<RaceA2, RaceA, RaceB>>] }

\* the outcomes of fetch('images/manifest.json'): the fetch rejects, the
\* response is not ok, the body is not JSON, or the body is a JSON value
ManifestResponses ==
    { [kind |-> "rejected"], [kind |-> "not ok"], [kind |-> "unparseable"] }
      \cup { [kind |-> "ok", body |-> b] : b \in Manifests \cup {Null} }

\* scanDirectory: the parsed body of an ok response, else {races: []}
scanDirectory(res) ==
    IF res.kind = "ok" THEN res.body ELSE [races |-> <<>>]

\* the outcomes of fetch(race.route) and res.text(): a rejection, or a text
\* with these trkpt elements
RouteResponses ==
    { [kind |-> "rejected"], [kind |-> "text", trkpts |-> <<>>],
      [kind |-> "text",
       trkpts |-> << [lat |-> 0, lon |-> 0, time |-> 0],
                     [lat |-> 0, lon |-> 9, time |-> 30000] >>] }

\* race.sources.flatMap(s => s.photos)
RECURSIVE flatPhotos(_, _)
flatPhotos(sources, i) ==
    IF i > Len(sources) THEN <<>>
    ELSE sources[i].photos \o flatPhotos(sources, i + 1)

HasTimestamp(photo) == "timestamp" \in DOMAIN photo

NoTimestamp(photo) == "timestamp" \notin DOMAIN photo

\* lines 880-888: fold one photo into the groups of the fallback
mergeIntoTimeGroups(groups, photo) ==
    LET t == photoTimestampToUtc(photo.timestamp)
    IN  IF Len(groups) > 0 /\ t - groups[Len(groups)].lastTime < MERGE_TIME
        THEN LET last == groups[Len(groups)]
             IN  [groups EXCEPT ![Len(groups)] =
                    [time |-> last.time, lastTime |-> t,
                     photos |-> Append(last.photos, photo)]]
        ELSE Append(groups, [time |-> t, lastTime |-> t, photos |-> <<photo>>])

RECURSIVE FoldTimeGroups(_, _, _)
FoldTimeGroups(groups, items, i) ==
    IF i > Len(items) THEN groups
    ELSE FoldTimeGroups(mergeIntoTimeGroups(groups, items[i].photo), items, i + 1)

sectionsOf(label, groups) ==
    [g \in 1..Len(groups) |-> [label |-> label, photos |-> groups[g].photos]]

otherSection(photos) ==
    IF Len(photos) > 0 THEN <<[label |-> "Other", photos |-> photos]>> ELSE <<>>

\* lines 869-907: the sections of a card without a route map
fallbackSections(race) ==
    LET allOf == flatPhotos(race.sources, 1)
        withTime == SelectSeq(allOf, HasTimestamp)
        sorted == SortByTime([i \in 1..Len(withTime) |->
                     [photo |-> withTime[i], time |-> withTime[i].timestamp]])
    IN  IF Len(withTime) > 0
        THEN sectionsOf("time", FoldTimeGroups(<<>>, sorted, 1))
               \o otherSection(SelectSeq(allOf, NoTimestamp))
        ELSE [i \in 1..Len(race.sources) |->
                [label |-> race.sources[i].name,
                 photos |-> race.sources[i].photos]]

\* lines 711-859: the sections the map timer appends to the card
mapSections(tps, race) ==
    LET allOf == flatPhotos(race.sources, 1)
        cs == [i \in 1..Len(allOf) |-> classifyPhoto(tps, allOf[i])]
    IN  sectionsOf("distance", InRangeGroupsOf(cs))
          \o sectionsOf("time", OutOfRangeGroupsOf(cs))
          \o otherSection(SelectSeq(allOf, NoTimestamp))

\* lines 215-228, 251, 341-343: the children renderOverview appends (the
\* races here have no location, so no overview map)
overviewNodes(m) ==
    IF Len(m.races) = 0 THEN <<[node |-> "no-races"]>>
    ELSE <<[node |-> "stats-bar"]>>
           \o [i \in 1..Len(m.races) |->
                 [node |-> "race-link", name |-> m.races[i].name]]

\* races.find(r => r.name === name): the index of the first match, or 0
RECURSIVE findRace(_, _, _)
findRace(races, name, i) ==
    IF i > Len(races) THEN 0
    ELSE IF races[i].name = name THEN i
    ELSE findRace(races, name, i + 1)

\* the state after DOMContentLoaded: the gallery is constructed, its
\* hashchange listener is registered, render() awaits the manifest
InitPage ==
    /\ manifest = Null
    /\ hash \in Hashes
    /\ leaflet \in BOOLEAN
    /\ boot = "fetching"
    /\ response = Null
    /\ container = <<>>
    /\ renders = <<>>
    /\ timers = <<>>
    /\ view = Null
    /\ errors = {}
    /\ navs = 0
    /\ pc = "page"
    /\ trackpoints = <<>>
    /\ utcMs = 0
    /\ pos = Null
    /\ metrics = Null
    /\ call = Null
    /\ BoxIdle
    /\ CorrIdle
    /\ GpxIdle
    /\ FormatIdle
    /\ KmIdle

PageFrame ==
    UNCHANGED <<trackpoints, pc, corrVars, queryVars, gpxVars, formatVars,
                kmVars, boxVars, call, leaflet>>

\* an error nobody catches ends the running handler
Raise(by, error) ==
    /\ view' = [kind |-> "threw", error |-> error]
    /\ errors' = errors \cup {[in |-> by, error |-> error]}

\* renderOverview: the container is emptied, then this.manifest.races is
\* read
renderOverview(by, m) ==
    IF m = Null
    THEN /\ container' = <<>>
         /\ Raise(by, "TypeError")
         /\ UNCHANGED renders
    ELSE /\ container' = overviewNodes(m)
         /\ view' = [kind |-> "overview"]
         /\ UNCHANGED <<renders, errors>>

\* renderRaceDetail up to its first await (route map) or to its end
renderRaceDetail(race) ==
    LET k == Len(renders) + 1
    IN  /\ view' = [kind |-> "detail", race |-> race, render |-> k]
        /\ UNCHANGED errors
        /\ IF "route" \in DOMAIN race /\ leaflet
           THEN /\ container' = <<[node |-> "back-link"]>>
                /\ renders' = Append(renders,
                      [race |-> race, stage |-> "fetch", hasMap |-> TRUE,
                       mapInit |-> FALSE, track |-> <<>>, sections |-> <<>>])
           ELSE /\ container' = <<[node |-> "back-link"],
                                  [node |-> "race-card", render |-> k]>>
                /\ renders' = Append(renders,
                      [race |-> race, stage |-> "done", hasMap |-> FALSE,
                       mapInit |-> FALSE, track |-> <<>>,
                       sections |-> fallbackSections(race)])

\* handleRoute on the manifest m and the fragment h
handleRoute(by, m, h) ==
    LET decoded == decodeURIComponent(slice1(h))
    IN  IF decoded = URIError
        THEN Raise(by, "URIError") /\ UNCHANGED <<container, renders>>
        ELSE IF Len(decoded.text) > 0
        THEN IF m = Null
             THEN Raise(by, "TypeError") /\ UNCHANGED <<container, renders>>
             ELSE LET r == findRace(m.races, decoded.text, 1)
                  IN  IF r # 0 THEN renderRaceDetail(m.races[r])
                      ELSE renderOverview(by, m)
        ELSE renderOverview(by, m)

\* render(): the manifest fetch settles, the manifest is stored, the route
\* is handled
ManifestArrives ==
    /\ boot = "fetching"
    /\ \E res \in ManifestResponses :
          /\ response' = res
          /\ manifest' = scanDirectory(res)
          /\ handleRoute("render", scanDirectory(res), hash)
    /\ boot' = "routed"
    /\ UNCHANGED <<hash, timers, navs>>
    /\ PageFrame

\* the hashchange listener of the constructor
HashChange ==
    /\ navs < MaxNav
    /\ \E h \in Hashes \ {hash} :
          /\ hash' = h
          /\ handleRoute("hashchange", manifest, h)
    /\ navs' = navs + 1
    /\ UNCHANGED <<manifest, boot, response, timers>>
    /\ PageFrame

\* renderRaceDetail after its awaits: the route fetch of a render settles
RouteArrives ==
    /\ \E k \in 1..Len(renders) :
          /\ renders[k].stage = "fetch"
          /\ \E res \in RouteResponses :
                LET tps == IF res.kind = "text" THEN parseGpx(res.trkpts)
                           ELSE <<>>
                IN  IF res.kind = "text" /\ Len(tps) > 0
                    THEN /\ renders' = [renders EXCEPT ![k].stage = "timer",
                                                       ![k].track = tps]
                         /\ timers' = Append(timers, k)
                    ELSE /\ renders' = [renders EXCEPT ![k].stage = "done"]
                         /\ UNCHANGED timers
          /\ container' = Append(container, [node |-> "race-card", render |-> k])
    /\ UNCHANGED <<manifest, hash, boot, response, view, errors, navs>>
    /\ PageFrame

\* document.getElementById('race-detail-map'): the render whose card is the
\* first in the container with a map container, or 0
RECURSIVE mapElement(_, _, _)
mapElement(nodes, rs, i) ==
    IF i > Len(nodes) THEN 0
    ELSE IF nodes[i].node = "race-card" /\ rs[nodes[i].render].hasMap
         THEN nodes[i].render
    ELSE mapElement(nodes, rs, i + 1)

\* the callback of setTimeout(..., 100): L.map('race-detail-map') raises if
\* the document has no such element or if the element already holds a map;
\* else the map is drawn and the sections are appended to the card
TimerFires ==
    /\ Len(timers) > 0
    /\ LET k == Head(timers)
           el == mapElement(container, renders, 1)
       IN  IF el = 0
           THEN /\ renders' = [renders EXCEPT ![k].stage = "done"]
                /\ errors' = errors \cup
                      {[in |-> "timer", error |-> "Map container not found."]}
           ELSE IF renders[el].mapInit
           THEN /\ renders' = [renders EXCEPT ![k].stage = "done"]
                /\ errors' = errors \cup
                      {[in |-> "timer",
                        error |-> "Map container is already initialized."]}
           ELSE /\ renders' =
                      [[renders EXCEPT ![el].mapInit = TRUE]
                          EXCEPT ![k].stage = "done",
                                 ![k].sections =
                                    @ \o mapSections(renders[k].track,
                                                     renders[k].race)]
                /\ UNCHANGED errors
    /\ timers' = Tail(timers)
    /\ UNCHANGED <<manifest, hash, boot, response, container, view, navs>>
    /\ PageFrame

NextPage == ManifestArrives \/ HashChange \/ RouteArrives \/ TimerFires

SpecPage == InitPage /\ [][NextPage]_vars

(***************************************************************************)
(* Properties of the page (specification SpecPage).                        *)
(***************************************************************************)
PhotosShown(k) ==
    UNION { { renders[k].sections[i].photos[j] :
                j \in 1..Len(renders[k].sections[i].photos) } :
            i \in 1..Len(renders[k].sections) }

PhotosOfRace(race) ==
    LET allOf == flatPhotos(race.sources, 1)
    IN  { allOf[i] : i \in 1..Len(allOf) }

CardShown(k) ==
    \E i \in 1..Len(container) :
       container[i] = [node |-> "race-card", render |-> k]

\* C21: once the route load of the race detail on display has ended,
\* whatever its outcome (a failed fetch, an empty track, a track), the card
\* is in the page and every photo of the race is in one of its sections.
C21_PhotosShownWhateverTheRouteLoad ==
    (view # Null /\ view.kind = "detail"
       /\ renders[view.render].stage = "done") =>
      /\ CardShown(view.render)
      /\ PhotosOfRace(view.race) \subseteq PhotosShown(view.render)

\* no fetch and no timer is pending
Quiescent ==
    /\ boot = "routed"
    /\ timers = <<>>
    /\ \A k \in 1..Len(renders) : renders[k].stage = "done"

\* C22: once every pending fetch and timer has completed, the container
\* holds the view of the most recent route only: the overview, or the back
\* link and the card of the latest render, and no card of an earlier
\* navigation.
C22_StaleRendersDiscarded ==
    (Quiescent /\ view.kind \in {"overview", "detail"}) =>
      IF view.kind = "overview"
      THEN container = overviewNodes(manifest)
      ELSE container = <<[node |-> "back-link"],
                         [node |-> "race-card", render |-> view.render]>>

\* the races of the manifest the fragment names
Named(m, h) ==
    LET decoded == decodeURIComponent(slice1(h))
    IN  IF decoded = URIError THEN {}
        ELSE { i \in 1..Len(m.races) :
                 Len(decoded.text) > 0 /\ m.races[i].name = decoded.text }

\* C25: with a manifest loaded, handleRoute shows the detail of the first
\* race whose name is the decoded fragment, if the fragment is not empty and
\* there is such a race; in every other case it shows the overview.
C25_DetailExactlyOnMatch ==
    (manifest # Null /\ view # Null) =>
      LET named == Named(manifest, hash)
      IN  IF named # {}
          THEN /\ view.kind = "detail"
               /\ view.race = manifest.races[CHOOSE i \in named :
                                                \A j \in named : i <= j]
          ELSE view.kind = "overview"

\* C27: when render() routes, the manifest stored is the body of an ok
\* response and {races: []} after a rejection, a response that is not ok or
\* a body that does not parse; it is never null.
C27_ManifestStoredBeforeRouting ==
    boot = "routed" =>
      /\ manifest = IF response.kind = "ok" THEN response.body
                    ELSE [races |-> <<>>]
      /\ manifest # Null

\* C28: no hashchange dereferences a null manifest while render() is still
\* waiting for the manifest fetch.
C28_NoRouteBeforeManifest ==
    boot = "fetching" => \A e \in errors : e.error # "TypeError"

====
